---- MODULE Spec2Model ----
(***************************************************************************)
(* A model of HybridSideFx (src/cpp/HybridSideFx.hpp): the listener        *)
(* registry (addListener .. configure), the throttle gate                  *)
(* (canFireCallback, recordTrigger) and the network and internet-quality   *)
(* monitor (startNetworkMonitoring .. setPingEndpoints, the path, timer    *)
(* and probe-completion handlers, the keys of the "sam-network" storage).  *)
(*                                                                         *)
(* Every public operation of the registry takes _mutex for its whole body, *)
(* so each is one atomic action.  canFireCallback and recordTrigger are    *)
(* private helpers without callers in the source; they are modelled as     *)
(* steps that may be taken on any registered entry at any time, with the   *)
(* timestamp an input.  _debugMode only selects logging and is not part of *)
(* the state.                                                              *)
(*                                                                         *)
(* The monitor is modelled twice over the same members (mon).  In          *)
(* SpecMonitor, SpecRotation and SpecPassiveWifi every handler runs to its *)
(* end before the next starts; a probe is issued by one handler and its    *)
(* completion handler runs as a later action.  In SpecRace every read and  *)
(* write of a member is a step of its thread, because                      *)
(* checkInternetQualityAsync accesses the members without _mutex.          *)
(* SpecClassify, SpecCombined and SpecTick evaluate latencyToQuality,      *)
(* calculateCombinedQuality and checkInternetQualityAsync on their inputs  *)
(* alone.  SpecWindow is the throttle gate of one listener with a window   *)
(* of two instants.  The timer of the monitor is part of mon (pingTimer):  *)
(* absent, due at once, or waiting for its interval.                       *)
(***************************************************************************)
EXTENDS Integers, FiniteSets, Sequences, TLC

(* ----------------------------- bounds ---------------------------------- *)

\* Throttle specification: timestamps (milliseconds in the source) passed to
\* canFireCallback range over 0..MaxTime.
MaxTime == 3

\* Throttle specification: getCurrentTimestamp() reads a value in 0..MaxClock.
MaxClock == 1

\* Throttle specification: throttle evaluations and recordTrigger stop once
\* triggerCount reaches MaxTriggers.
MaxTriggers == 2

\* Registry specification: the same cap on triggerCount.
RegMaxTriggers == 1

\* configure() is tried with maxListeners in 0..MaxCap.
MaxCap == 1

\* Monitor specification: at most MaxProbes probes are issued after the
\* endpoint cursor was last reset.
MaxProbes == 2

\* Monitor specification: at most MaxInFlight probes are outstanding.
MaxInFlight == 1

\* Rotation specification: the cap on the probes issued after a reset.
RotMaxProbes == 5

\* Passive-wifi specification: the same two caps.
PassiveMaxProbes == 3

PassiveMaxInFlight == 2

\* Race specification: the same two caps.
RaceMaxProbes == 1

RaceMaxInFlight == 1

\* Lock specification: at most LockMaxProbes probes are issued, at most
\* LockMaxInFlight of them outstanding.
LockMaxProbes == 2
LockMaxInFlight == 1

\* Recovery specification: disturbances stop once the cursor has reached
\* RecFaultsUntil, and at most RecMaxProbes probes are issued.
RecFaultsUntil == 2

RecMaxProbes == 3

\* Classifier specification: latencyToQuality is evaluated on the latencies
\* -MaxNegLatency..MaxLatency (milliseconds).
MaxLatency == 1001

MaxNegLatency == 3

(* --------------------------- program constants ------------------------- *)

\* HybridSideFx() : ... _maxListeners(10000)
DefaultMaxListeners == 10000

(* ----------------------------- input sets ------------------------------ *)

\* Listener ids (std::string keys of _listeners).
Ids == {"a", "b"}

\* Registry specification: every call happens within one millisecond, so
\* every timestamp is the same instant.
RegTimes == {0}

\* The one id the throttle specification exercises: the throttle gate and
\* recordTrigger read and write a single entry.
ThrottleIds == {"a"}

\* std::optional<double>: has_value() and value().
None == [has |-> FALSE, value |-> 0]

Some(v) == [has |-> TRUE, value |-> v]

\* ListenerConfig: the three watch targets (only their presence is read by
\* this class), options.has_value() and options->throttleMs.
Config(w, c, cb, o, t) ==
  [warm |-> w, cold |-> c, combined |-> cb, options |-> o, throttleMs |-> t]

\* The configs addListener is called with: every way of leaving all targets
\* out or setting one, and throttleMs absent, negative, and positive.
\* addListener does not validate throttleMs, so a negative value is stored.
ConfigInputs ==
  { Config(FALSE, FALSE, FALSE, FALSE, None),
    Config(FALSE, FALSE, FALSE, TRUE, Some(1)),
    Config(TRUE, FALSE, FALSE, FALSE, None),
    Config(FALSE, TRUE, FALSE, TRUE, None),
    Config(FALSE, FALSE, TRUE, TRUE, Some(1)),
    Config(TRUE, TRUE, FALSE, TRUE, Some(-1)) }

(* ------------------------------- state --------------------------------- *)

VARIABLES
  listeners,      \* _listeners: id -> ListenerEntry (a function on the ids present)
  maxListeners,   \* _maxListeners
  last,           \* the last operation called and what it returned
  dirtyRemoved,   \* history: absent ids whose last entry was removed after it had been used
  mon,            \* the members of the network and internet-quality monitor
  mlast,          \* the last monitor operation that ran
  sample,         \* the argument a pure function was last evaluated on
  answer,         \* the value it returned
  thr,            \* per thread: the statement it is at and its locals
  mutex           \* the thread holding _mutex, or "free"

rvars == <<listeners, maxListeners, last, dirtyRemoved>>

mvars == <<mon, mlast>>

fvars == <<sample, answer>>

cvars == <<thr, mutex>>

vars == <<rvars, mvars, fvars, cvars>>

\* What the registry operations, and what the monitor operations, leave alone.
outsideRegistry == <<mvars, fvars, cvars>>

outsideMonitor == <<rvars, fvars, cvars>>

outsidePure == <<rvars, mvars, cvars>>

(* ------------------------- results of operations ----------------------- *)

\* ListenerResult(success, error): the error message is abstracted to its kind.
ListenerResult(success, error) == [success |-> success, error |-> error]

Ok == ListenerResult(TRUE, "None")

\* The record of a call: the operation, its id argument, the result, the
\* count removeAllListeners returned and the value canFireCallback returned.
\* For addListener, noTarget tells that the config argument set no watch
\* target, and reused that the call succeeded on an id whose previous entry
\* had been removed after use.
Last(op, id, result, count, fired) ==
  [op |-> op, id |-> id, result |-> result, count |-> count, fired |-> fired,
   noTarget |-> FALSE, reused |-> FALSE]

(* --------------------------- map primitives ---------------------------- *)

\* _listeners[id] = entry
MapPut(m, id, entry) ==
  [x \in (DOMAIN m) \cup {id} |-> IF x = id THEN entry ELSE m[x]]

\* _listeners.erase(it)
MapErase(m, id) == [x \in (DOMAIN m) \ {id} |-> m[x]]

\* _listeners.clear()
EmptyMap == [x \in {} |-> None]

\* _listeners.size()
Size(m) == Cardinality(DOMAIN m)

(* ---------------------------- the registry ----------------------------- *)

\* NewEntry with the counter left at a stale value.
NewEntry_StaleCount(id, config, now) ==
  [id |-> id, config |-> config, createdAt |-> now, triggerCount |-> 1,
   lastTriggered |-> None, isPaused |-> FALSE, nextAllowedTrigger |-> None,
   hasPendingEvent |-> FALSE]

\* ListenerEntry as addListener builds it: zeroed counters, not paused, no
\* throttle window, nothing pending; lastTriggered is a default-constructed
\* std::optional.
NewEntry(id, config, now) ==
  [id |-> id, config |-> config, createdAt |-> now, triggerCount |-> 0,
   lastTriggered |-> None, isPaused |-> FALSE, nextAllowedTrigger |-> None,
   hasPendingEvent |-> FALSE]

\* The config validation of addListener.
NoTarget(config) == ~config.warm /\ ~config.cold /\ ~config.combined

\* addListener without the duplicate check: _listeners[id] = entry overwrites.
addListener_Overwrite(id, config, now) ==
  IF id \notin DOMAIN listeners /\ Size(listeners) >= maxListeners
    THEN [map |-> listeners, result |-> ListenerResult(FALSE, "CapacityExceeded")]
  ELSE IF NoTarget(config)
    THEN [map |-> listeners, result |-> ListenerResult(FALSE, "InvalidConfig")]
  ELSE [map |-> MapPut(listeners, id, NewEntry(id, config, now)), result |-> Ok]

\* addListener with the limit compared by > instead of >=.
addListener_OffByOne(id, config, now) ==
  IF id \in DOMAIN listeners
    THEN [map |-> listeners, result |-> ListenerResult(FALSE, "DuplicateId")]
  ELSE IF Size(listeners) > maxListeners
    THEN [map |-> listeners, result |-> ListenerResult(FALSE, "CapacityExceeded")]
  ELSE IF NoTarget(config)
    THEN [map |-> listeners, result |-> ListenerResult(FALSE, "InvalidConfig")]
  ELSE [map |-> MapPut(listeners, id, NewEntry(id, config, now)), result |-> Ok]

\* addListener without the config validation.
addListener_NoValidation(id, config, now) ==
  IF id \in DOMAIN listeners
    THEN [map |-> listeners, result |-> ListenerResult(FALSE, "DuplicateId")]
  ELSE IF Size(listeners) >= maxListeners
    THEN [map |-> listeners, result |-> ListenerResult(FALSE, "CapacityExceeded")]
  ELSE [map |-> MapPut(listeners, id, NewEntry(id, config, now)), result |-> Ok]

\* addListener(id, config), with `now` the reading of getCurrentTimestamp():
\* the registry it leaves and the result it returns.
addListener(id, config, now) ==
  IF id \in DOMAIN listeners
    THEN [map |-> listeners, result |-> ListenerResult(FALSE, "DuplicateId")]
  ELSE IF Size(listeners) >= maxListeners
    THEN [map |-> listeners, result |-> ListenerResult(FALSE, "CapacityExceeded")]
  ELSE IF NoTarget(config)
    THEN [map |-> listeners, result |-> ListenerResult(FALSE, "InvalidConfig")]
  ELSE [map |-> MapPut(listeners, id, NewEntry(id, config, now)), result |-> Ok]

\* removeListener(id)
removeListener(id) ==
  IF id \notin DOMAIN listeners
    THEN [map |-> listeners, result |-> ListenerResult(FALSE, "NotFound")]
  ELSE [map |-> MapErase(listeners, id), result |-> Ok]

\* removeAllListeners reading the size after clear().
removeAllListeners_CountAfterClear == [map |-> EmptyMap, count |-> Size(EmptyMap)]

\* removeAllListeners(): the count it returns and the registry it leaves.
removeAllListeners == [map |-> EmptyMap, count |-> Size(listeners)]

\* hasListener(id)
hasListener(id) == id \in DOMAIN listeners

\* getListenerIds(): the keys of the map (std::map iterates them in order;
\* the order is not modelled).
getListenerIds == DOMAIN listeners

\* createListenerInfo(entry): the snapshot handed to callers; it leaves out
\* nextAllowedTrigger and hasPendingEvent.
createListenerInfo(entry) ==
  [id |-> entry.id, config |-> entry.config, createdAt |-> entry.createdAt,
   triggerCount |-> entry.triggerCount, lastTriggered |-> entry.lastTriggered,
   isPaused |-> entry.isPaused]

\* getListener(id): std::nullopt when absent.
getListener(id) ==
  IF id \notin DOMAIN listeners THEN None
  ELSE Some(createListenerInfo(listeners[id]))

\* pause/resume written as _listeners[id].isPaused = paused: operator[]
\* inserts a default entry for an absent id.
setPaused_Insert(id, paused) ==
  IF id \notin DOMAIN listeners
    THEN [map |-> MapPut(listeners, id,
                         [NewEntry(id, Config(FALSE, FALSE, FALSE, FALSE, None), 0)
                            EXCEPT !.isPaused = paused]),
          result |-> Ok]
  ELSE [map |-> [listeners EXCEPT ![id].isPaused = paused], result |-> Ok]

\* pauseListener(id) and resumeListener(id): it->second.isPaused = paused.
setPaused(id, paused) ==
  IF id \notin DOMAIN listeners
    THEN [map |-> listeners, result |-> ListenerResult(FALSE, "NotFound")]
  ELSE [map |-> [listeners EXCEPT ![id].isPaused = paused], result |-> Ok]

pauseListener(id) == setPaused(id, TRUE)

resumeListener(id) == setPaused(id, FALSE)

\* configure(config): _maxListeners is replaced when config.maxListeners has
\* a value (an optional, as in the source).  The value is a double cast to
\* size_t; only whole non-negative values are drawn.  config.debug only
\* switches logging.
configure(maxOpt) == IF maxOpt.has THEN maxOpt.value ELSE maxListeners

(* --------------------------- the throttle gate ------------------------- *)

\* Whether the entry's config carries a throttle window.
HasThrottle(entry) == entry.config.options /\ entry.config.throttleMs.has

\* The "update trigger stats" tail of canFireCallback.
Fire(entry, currentTime) ==
  [entry EXCEPT !.triggerCount = @ + 1,
                !.lastTriggered = Some(currentTime),
                !.hasPendingEvent = FALSE]

\* canFireCallback with the window compared by <=: the boundary instant
\* nextAllowedTrigger itself is still suppressed.
canFireCallback_BoundarySuppressed(entry, currentTime) ==
  IF entry.isPaused
    THEN [entry |-> entry, fired |-> FALSE]
  ELSE IF HasThrottle(entry)
    THEN IF entry.nextAllowedTrigger.has
            /\ currentTime <= entry.nextAllowedTrigger.value
           THEN [entry |-> [entry EXCEPT !.hasPendingEvent = TRUE],
                 fired |-> FALSE]
           ELSE [entry |->
                   Fire([entry EXCEPT !.nextAllowedTrigger =
                            Some(currentTime + entry.config.throttleMs.value)],
                        currentTime),
                 fired |-> TRUE]
  ELSE [entry |-> Fire(entry, currentTime), fired |-> TRUE]

\* canFireCallback with the pause check made after the throttle window check:
\* a paused listener inside its window is marked pending.
canFireCallback_PauseLate(entry, currentTime) ==
  IF HasThrottle(entry) /\ entry.nextAllowedTrigger.has
     /\ currentTime < entry.nextAllowedTrigger.value
    THEN [entry |-> [entry EXCEPT !.hasPendingEvent = TRUE], fired |-> FALSE]
  ELSE IF entry.isPaused
    THEN [entry |-> entry, fired |-> FALSE]
  ELSE IF HasThrottle(entry)
    THEN [entry |->
            Fire([entry EXCEPT !.nextAllowedTrigger =
                     Some(currentTime + entry.config.throttleMs.value)],
                 currentTime),
          fired |-> TRUE]
  ELSE [entry |-> Fire(entry, currentTime), fired |-> TRUE]

\* canFireCallback letting a pending event through: once an evaluation has
\* been suppressed, the next one fires whatever the window.
canFireCallback_PendingFires(entry, currentTime) ==
  IF entry.isPaused
    THEN [entry |-> entry, fired |-> FALSE]
  ELSE IF HasThrottle(entry)
    THEN IF entry.nextAllowedTrigger.has
            /\ currentTime < entry.nextAllowedTrigger.value
            /\ ~entry.hasPendingEvent
           THEN [entry |-> [entry EXCEPT !.hasPendingEvent = TRUE],
                 fired |-> FALSE]
           ELSE [entry |->
                   Fire([entry EXCEPT !.nextAllowedTrigger =
                            Some(currentTime + entry.config.throttleMs.value)],
                        currentTime),
                 fired |-> TRUE]
  ELSE [entry |-> Fire(entry, currentTime), fired |-> TRUE]

\* canFireCallback(entry, currentTime): the entry as it is left, and the
\* value returned.
canFireCallback(entry, currentTime) ==
  IF entry.isPaused
    THEN [entry |-> entry, fired |-> FALSE]
  ELSE IF HasThrottle(entry)
    THEN IF entry.nextAllowedTrigger.has
            /\ currentTime < entry.nextAllowedTrigger.value
           THEN [entry |-> [entry EXCEPT !.hasPendingEvent = TRUE],
                 fired |-> FALSE]
           ELSE [entry |->
                   Fire([entry EXCEPT !.nextAllowedTrigger =
                            Some(currentTime + entry.config.throttleMs.value)],
                        currentTime),
                 fired |-> TRUE]
  ELSE [entry |-> Fire(entry, currentTime), fired |-> TRUE]

\* recordTrigger counting the trigger twice.
recordTrigger_CountsTwice(entry, currentTime) ==
  LET e == [entry EXCEPT !.triggerCount = @ + 2,
                         !.lastTriggered = Some(currentTime)]
  IN IF HasThrottle(e)
       THEN [e EXCEPT !.nextAllowedTrigger =
                        Some(currentTime + e.config.throttleMs.value)]
       ELSE e

\* recordTrigger(id) on a present entry, with currentTime the reading of
\* getCurrentTimestamp(): it does not touch hasPendingEvent.
recordTrigger(entry, currentTime) ==
  LET e == [entry EXCEPT !.triggerCount = @ + 1,
                         !.lastTriggered = Some(currentTime)]
  IN IF HasThrottle(e)
       THEN [e EXCEPT !.nextAllowedTrigger =
                        Some(currentTime + e.config.throttleMs.value)]
       ELSE e

(* =============== network and internet-quality monitor ================= *)

\* latencyToQuality: latencies below 100 ms are excellent, below 300 ms
\* good, below 1000 ms fair.
ExcellentBelow == 100

GoodBelow == 300

FairBelow == 1000

\* enum NetworkStatus, ConnectionType and CellularGeneration, by the names
\* of their enumerators.
NetworkStatuses == {"ONLINE", "OFFLINE", "UNKNOWN"}

ConnectionTypes ==
  {"WIFI", "CELLULAR", "ETHERNET", "BLUETOOTH", "VPN", "NONE", "UNKNOWN"}

CellularGenerations == {"_2G", "_3G", "_4G", "_5G", "UNKNOWN"}

\* The labels _internetQuality takes.
QualityLabels == {"unknown", "excellent", "good", "fair", "poor", "offline"}

\* NetworkState(status, type, isConnected, isInternetReachable,
\* cellularGeneration, wifiStrength, isConnectionExpensive, timestamp).
\* wifiStrength is -1 at every construction; the timestamp is read by no
\* code of the monitor and is kept at one instant.
NetworkState(status, type, isConnected, reachable, gen, expensive) ==
  [status |-> status, type |-> type, isConnected |-> isConnected,
   isInternetReachable |-> reachable,
   cellularGeneration |-> gen, wifiStrength |-> -1,
   isConnectionExpensive |-> expensive, timestamp |-> 0]

\* The member initialisers of the monitor.  warmInstances is the part of
\* _warmInstances the monitor reads ("sam-network" in it or not), store the
\* keys of the "sam-network" storage, probes the endpoints of the HEAD
\* requests whose completion handler has not run yet, in issue order.
\* pingTimer is "null" while _pingTimer is nullptr; otherwise the timer
\* exists and its next event is either due at once ("due": the start time
\* it was last set with was DISPATCH_TIME_NOW and it has not fired since) or
\* one interval after its last event ("waiting").
InitialMonitor ==
  [networkMonitoringActive |-> FALSE,
   pingTimer |-> "null",
   currentNetworkState |->
     NetworkState("UNKNOWN", "UNKNOWN", FALSE, -1, "UNKNOWN", FALSE),
   lastPingLatencyMs |-> -1,
   internetQuality |-> "unknown",
   internetReachable |-> FALSE,
   useActivePing |-> FALSE,
   pingEndpointIndex |-> 0,
   isCheckingOfflineRecovery |-> FALSE,
   customPingEndpoints |-> <<>>,
   warmInstances |-> {},
   store |-> EmptyMap,
   probes |-> <<>>]

\* A latencyToQuality that counts a boundary latency to the better label.
latencyToQuality_BoundaryBetter(latencyMs) ==
  IF latencyMs < 0 THEN "unknown"
  ELSE IF latencyMs <= ExcellentBelow THEN "excellent"
  ELSE IF latencyMs <= GoodBelow THEN "good"
  ELSE IF latencyMs <= FairBelow THEN "fair"
  ELSE "poor"

latencyToQuality(latencyMs) ==
  IF latencyMs < 0 THEN "unknown"
  ELSE IF latencyMs < ExcellentBelow THEN "excellent"
  ELSE IF latencyMs < GoodBelow THEN "good"
  ELSE IF latencyMs < FairBelow THEN "fair"
  ELSE "poor"

networkStatusToString(status) ==
  CASE status = "ONLINE" -> "online"
    [] status = "OFFLINE" -> "offline"
    [] OTHER -> "unknown"

connectionTypeToString(type) ==
  CASE type = "WIFI" -> "wifi"
    [] type = "CELLULAR" -> "cellular"
    [] type = "ETHERNET" -> "ethernet"
    [] type = "BLUETOOTH" -> "bluetooth"
    [] type = "VPN" -> "vpn"
    [] type = "NONE" -> "none"
    [] OTHER -> "unknown"

cellularGenerationToString(gen) ==
  CASE gen = "_2G" -> "2g"
    [] gen = "_3G" -> "3g"
    [] gen = "_4G" -> "4g"
    [] gen = "_5G" -> "5g"
    [] OTHER -> "unknown"

\* The default endpoints of getPingEndpoints.
DefaultPingEndpoints ==
  << "https://www.google.com/generate_204",
     "https://www.apple.com/library/test/success.html",
     "https://clients3.google.com/generate_204",
     "https://captive.apple.com/hotspot-detect.html" >>

getPingEndpoints(m) ==
  IF m.customPingEndpoints # <<>> THEN m.customPingEndpoints
  ELSE DefaultPingEndpoints

\* The type-based estimate shared by calculateCombinedQuality and
\* updateNetworkWarmKeys; other is the label both leave for a type that is
\* neither wifi, ethernet nor cellular.
TypeEstimate(net, other) ==
  IF net.type = "WIFI" \/ net.type = "ETHERNET" THEN "strong"
  ELSE IF net.type = "CELLULAR" THEN
    IF net.cellularGeneration = "_5G" \/ net.cellularGeneration = "_4G"
      THEN "strong"
    ELSE IF net.cellularGeneration = "_3G" THEN "medium"
    ELSE "weak"
  ELSE other

\* A calculateCombinedQuality with the probe quality consulted before the
\* absence of probe data.
calculateCombinedQuality_ProbeFirst(m) ==
  LET net == m.currentNetworkState IN
  IF net.status = "OFFLINE" \/ net.type = "NONE" THEN "offline"
  ELSE IF m.internetQuality = "offline" THEN "offline"
  ELSE IF m.internetQuality = "excellent" \/ m.internetQuality = "good"
    THEN "strong"
  ELSE IF m.internetQuality = "fair" THEN "medium"
  ELSE IF m.internetQuality = "poor" THEN "weak"
  ELSE TypeEstimate(net, "unknown")

calculateCombinedQuality(m) ==
  LET net == m.currentNetworkState IN
  IF net.status = "OFFLINE" \/ net.type = "NONE" THEN "offline"
  ELSE IF m.internetQuality = "offline" THEN "offline"
  ELSE IF m.internetQuality = "unknown" \/ m.lastPingLatencyMs < 0
    THEN TypeEstimate(net, "unknown")
  ELSE IF m.internetQuality = "excellent" \/ m.internetQuality = "good"
    THEN "strong"
  ELSE IF m.internetQuality = "fair" THEN "medium"
  ELSE IF m.internetQuality = "poor" THEN "weak"
  ELSE "unknown"

\* storage->set(value, key) on the "sam-network" storage.
StoreSet(m, key, value) == [m EXCEPT !.store = MapPut(@, key, value)]

\* INTERNET_STATE as updateInternetQualityWarmKeys derives it.
InternetState(m) ==
  IF ~m.internetReachable THEN "offline"
  ELSE IF m.internetQuality = "poor" \/ m.internetQuality = "fair"
          \/ calculateCombinedQuality(m) = "weak" THEN "online-weak"
  ELSE "online"

\* An updateInternetQualityWarmKeys that leaves NETWORK_QUALITY,
\* INTERNET_REACHABLE and INTERNET_STATE as they were.
updateInternetQualityWarmKeys_QualityOnly(m) ==
  IF "sam-network" \notin m.warmInstances THEN m
  ELSE StoreSet(StoreSet(m, "INTERNET_QUALITY", m.internetQuality),
                "INTERNET_LATENCY_MS", m.lastPingLatencyMs)

updateInternetQualityWarmKeys(m) ==
  IF "sam-network" \notin m.warmInstances THEN m
  ELSE
    LET m1 == StoreSet(m, "INTERNET_QUALITY", m.internetQuality)
        m2 == StoreSet(m1, "INTERNET_LATENCY_MS", m.lastPingLatencyMs)
        m3 == StoreSet(m2, "NETWORK_QUALITY", calculateCombinedQuality(m))
        m4 == StoreSet(m3, "INTERNET_REACHABLE", m.internetReachable)
    IN StoreSet(m4, "INTERNET_STATE", InternetState(m))

\* updateNetworkWarmKeys: the storage is initialised on the way (the
\* default storage path is never empty on this platform); NETWORK_QUALITY is
\* estimated from the snapshot alone.
updateNetworkWarmKeys(m) ==
  LET net == m.currentNetworkState
      quality ==
        IF net.status = "OFFLINE" \/ net.type = "NONE" THEN "offline"
        ELSE IF net.status = "ONLINE" THEN TypeEstimate(net, "unknown")
        ELSE "unknown"
      m0 == [m EXCEPT !.warmInstances = @ \cup {"sam-network"}]
      m1 == StoreSet(m0, "NETWORK_STATUS", networkStatusToString(net.status))
      m2 == StoreSet(m1, "NETWORK_TYPE", connectionTypeToString(net.type))
      m3 == StoreSet(m2, "NETWORK_QUALITY", quality)
      m4 == IF net.type = "CELLULAR"
              THEN StoreSet(m3, "CELLULAR_GENERATION",
                            cellularGenerationToString(net.cellularGeneration))
              ELSE m3
  IN StoreSet(m4, "IS_CONNECTED", net.isConnected)

\* A path handed to the path monitor's update handler: nw_path_get_status,
\* the interface types it uses, nw_path_is_expensive, and the answer of
\* getCellularGeneration() at that moment.
Path(status, wifi, cellular, wired, expensive, gen) ==
  [status |-> status, wifi |-> wifi, cellular |-> cellular, wired |-> wired,
   expensive |-> expensive, gen |-> gen]

updateNetworkStateFromPath(m, path) ==
  LET isConnected == path.status = "satisfied" \/ path.status = "satisfiable"
      connType == IF path.wifi THEN "WIFI"
                  ELSE IF path.cellular THEN "CELLULAR"
                  ELSE IF path.wired THEN "ETHERNET"
                  ELSE IF ~isConnected THEN "NONE"
                  ELSE "UNKNOWN"
      netStatus == IF path.status = "satisfied" THEN "ONLINE"
                   ELSE IF path.status = "unsatisfied" THEN "OFFLINE"
                   ELSE "UNKNOWN"
      cellGen == IF connType = "CELLULAR" THEN path.gen ELSE "UNKNOWN"
  IN updateNetworkWarmKeys(
       [m EXCEPT !.currentNetworkState =
          NetworkState(netStatus, connType, isConnected,
                       IF isConnected THEN 1 ELSE 0, cellGen,
                       path.expensive)])

\* SCNetworkReachabilityFlags: the three bits read, and the answer of
\* getCellularGeneration().
Flags(reachable, connectionRequired, isWWAN, gen) ==
  [reachable |-> reachable, connectionRequired |-> connectionRequired,
   isWWAN |-> isWWAN, gen |-> gen]

updateNetworkStateFromReachabilityFlags(m, flags) ==
  LET isConnected == flags.reachable /\ ~flags.connectionRequired
      connType == IF ~isConnected THEN "NONE"
                  ELSE IF flags.isWWAN THEN "CELLULAR"
                  ELSE "WIFI"
      netStatus == IF isConnected THEN "ONLINE" ELSE "OFFLINE"
      cellGen == IF connType = "CELLULAR" THEN flags.gen ELSE "UNKNOWN"
  IN updateNetworkWarmKeys(
       [m EXCEPT !.currentNetworkState =
          NetworkState(netStatus, connType, isConnected,
                       IF isConnected THEN 1 ELSE 0, cellGen,
                       flags.isWWAN)])

\* A checkInternetQualityAsync that also probes while disconnected.
checkInternetQualityAsync_ProbeWhenDisconnected(m) ==
  LET endpoints == getPingEndpoints(m)
      endpoint == endpoints[(m.pingEndpointIndex % Len(endpoints)) + 1]
  IN IF ~m.currentNetworkState.isConnected
       THEN updateInternetQualityWarmKeys(
              [m EXCEPT !.lastPingLatencyMs = -1,
                        !.internetQuality = "offline",
                        !.internetReachable = FALSE,
                        !.pingEndpointIndex = @ + 1,
                        !.probes = Append(@, endpoint)])
       ELSE [m EXCEPT !.pingEndpointIndex = @ + 1,
                      !.probes = Append(@, endpoint)]

\* A checkInternetQualityAsync that always probes the first endpoint.
checkInternetQualityAsync_FirstEndpoint(m) ==
  IF ~m.currentNetworkState.isConnected
    THEN updateInternetQualityWarmKeys(
           [m EXCEPT !.lastPingLatencyMs = -1,
                     !.internetQuality = "offline",
                     !.internetReachable = FALSE])
  ELSE IF ~m.useActivePing
          /\ ~(~m.internetReachable \/ m.isCheckingOfflineRecovery)
    THEN IF m.lastPingLatencyMs < 0
           THEN updateInternetQualityWarmKeys(
                  [m EXCEPT !.internetQuality = "unknown"])
           ELSE m
  ELSE [m EXCEPT !.pingEndpointIndex = @ + 1,
                 !.probes = Append(@, getPingEndpoints(m)[1])]

\* A checkInternetQualityAsync that never probes in passive mode, whatever
\* the recovery state.
checkInternetQualityAsync_PassiveNeverProbes(m) ==
  IF ~m.currentNetworkState.isConnected
    THEN updateInternetQualityWarmKeys(
           [m EXCEPT !.lastPingLatencyMs = -1,
                     !.internetQuality = "offline",
                     !.internetReachable = FALSE])
  ELSE IF ~m.useActivePing
    THEN IF m.lastPingLatencyMs < 0
           THEN updateInternetQualityWarmKeys(
                  [m EXCEPT !.internetQuality = "unknown"])
           ELSE m
  ELSE
    LET endpoints == getPingEndpoints(m)
        endpoint == endpoints[(m.pingEndpointIndex % Len(endpoints)) + 1]
    IN [m EXCEPT !.pingEndpointIndex = @ + 1,
                 !.probes = Append(@, endpoint)]

\* A checkInternetQualityAsync whose passive steady state drops the sample:
\* it resets the quality to unknown whether or not a latency exists.
checkInternetQualityAsync_PassiveResets(m) ==
  IF ~m.currentNetworkState.isConnected
    THEN updateInternetQualityWarmKeys(
           [m EXCEPT !.lastPingLatencyMs = -1,
                     !.internetQuality = "offline",
                     !.internetReachable = FALSE])
  ELSE IF ~m.useActivePing
          /\ ~(~m.internetReachable \/ m.isCheckingOfflineRecovery)
    THEN updateInternetQualityWarmKeys(
           [m EXCEPT !.internetQuality = "unknown"])
  ELSE
    LET endpoints == getPingEndpoints(m)
        endpoint == endpoints[(m.pingEndpointIndex % Len(endpoints)) + 1]
    IN [m EXCEPT !.pingEndpointIndex = @ + 1,
                 !.probes = Append(@, endpoint)]

\* One evaluation tick.  A probe is a HEAD request to the endpoint under
\* the cursor; its completion handler runs later (completeProbe).
checkInternetQualityAsync(m) ==
  IF ~m.currentNetworkState.isConnected
    THEN updateInternetQualityWarmKeys(
           [m EXCEPT !.lastPingLatencyMs = -1,
                     !.internetQuality = "offline",
                     !.internetReachable = FALSE])
  ELSE
    LET shouldCheckForRecovery ==
          ~m.internetReachable \/ m.isCheckingOfflineRecovery
    IN IF ~m.useActivePing /\ ~shouldCheckForRecovery
         THEN IF m.lastPingLatencyMs < 0
                THEN updateInternetQualityWarmKeys(
                       [m EXCEPT !.internetQuality = "unknown"])
                ELSE m
         ELSE
           LET endpoints == getPingEndpoints(m)
               endpoint ==
                 endpoints[(m.pingEndpointIndex % Len(endpoints)) + 1]
           IN [m EXCEPT !.pingEndpointIndex = @ + 1,
                        !.probes = Append(@, endpoint)]

\* Whether the tick checkInternetQualityAsync(m) issues a probe.
Probes(m) ==
  /\ m.currentNetworkState.isConnected
  /\ m.useActivePing \/ ~m.internetReachable \/ m.isCheckingOfflineRecovery

\* The outcome of a HEAD request: error, or success after elapsed ms.
ProbeError == [error |-> TRUE, elapsedMs |-> 0]

ProbeSuccess(elapsedMs) == [error |-> FALSE, elapsedMs |-> elapsedMs]

\* The sequence s without its i-th element.
Without(s, i) == SubSeq(s, 1, i - 1) \o SubSeq(s, i + 1, Len(s))

\* The completion handler of the i-th outstanding request.
completeProbe(m, i, outcome) ==
  LET latencyMs == IF outcome.error THEN -1 ELSE outcome.elapsedMs
      quality == IF outcome.error THEN "offline"
                 ELSE latencyToQuality(outcome.elapsedMs)
      reachable == ~outcome.error
  IN updateInternetQualityWarmKeys(
       [m EXCEPT !.lastPingLatencyMs = latencyMs,
                 !.internetQuality = quality,
                 !.internetReachable = reachable,
                 !.isCheckingOfflineRecovery = ~reachable,
                 !.probes = Without(@, i)])

\* startNetworkMonitoring: nothing when already active; otherwise the path
\* monitor and the timer are created, the timer with start DISPATCH_TIME_NOW.
startNetworkMonitoring(m) ==
  IF m.networkMonitoringActive THEN m
  ELSE [m EXCEPT !.pingTimer = "due", !.networkMonitoringActive = TRUE]

\* stopNetworkMonitoring: nothing when not active; otherwise the timer and
\* the path monitor are cancelled and forgotten.
stopNetworkMonitoring(m) ==
  IF ~m.networkMonitoringActive THEN m
  ELSE [m EXCEPT !.pingTimer = "null", !.networkMonitoringActive = FALSE]

\* The timer re-armed by dispatch_source_set_timer with start
\* DISPATCH_TIME_NOW, when it exists.
rearmTimer(m) ==
  IF m.pingTimer # "null" THEN [m EXCEPT !.pingTimer = "due"] ELSE m

\* setActivePingMode: the flag, the timer re-armed with the interval of the
\* mode, and a tick when pinging is enabled while monitoring.
setActivePingMode(m, enabled) ==
  LET m1 == rearmTimer([m EXCEPT !.useActivePing = enabled]) IN
  IF enabled /\ m1.networkMonitoringActive
    THEN checkInternetQualityAsync(m1)
    ELSE m1

\* A reportNetworkLatency that leaves the recovery flag alone.
reportNetworkLatency_KeepsRecovery(m, latencyMs) ==
  IF latencyMs < 0 THEN m
  ELSE updateInternetQualityWarmKeys(
         [m EXCEPT !.lastPingLatencyMs = latencyMs,
                   !.internetQuality = latencyToQuality(latencyMs),
                   !.internetReachable = TRUE])

\* A reportNetworkLatency that republishes on a negative latency.
reportNetworkLatency_PublishesAlways(m, latencyMs) ==
  IF latencyMs < 0 THEN updateInternetQualityWarmKeys(m)
  ELSE updateInternetQualityWarmKeys(
         [m EXCEPT !.lastPingLatencyMs = latencyMs,
                   !.internetQuality = latencyToQuality(latencyMs),
                   !.internetReachable = TRUE,
                   !.isCheckingOfflineRecovery = FALSE])

reportNetworkLatency(m, latencyMs) ==
  IF latencyMs < 0 THEN m
  ELSE updateInternetQualityWarmKeys(
         [m EXCEPT !.lastPingLatencyMs = latencyMs,
                   !.internetQuality = latencyToQuality(latencyMs),
                   !.internetReachable = TRUE,
                   !.isCheckingOfflineRecovery = FALSE])

\* A reportNetworkFailure that keeps the last latency.
reportNetworkFailure_KeepsLatency(m) ==
  updateInternetQualityWarmKeys(
    [m EXCEPT !.internetReachable = FALSE,
              !.internetQuality = "offline",
              !.isCheckingOfflineRecovery = TRUE])

reportNetworkFailure(m) ==
  updateInternetQualityWarmKeys(
    [m EXCEPT !.internetReachable = FALSE,
              !.internetQuality = "offline",
              !.lastPingLatencyMs = -1,
              !.isCheckingOfflineRecovery = TRUE])

\* A setPingEndpoints that keeps the cursor.
setPingEndpoints_KeepsCursor(m, endpoints) ==
  [m EXCEPT !.customPingEndpoints = endpoints]

\* An empty list clears the custom endpoints, which is the same assignment.
setPingEndpoints(m, endpoints) ==
  [m EXCEPT !.customPingEndpoints = endpoints, !.pingEndpointIndex = 0]

\* initializeWarm("sam-network") succeeding.
initializeWarm(m) == [m EXCEPT !.warmInstances = @ \cup {"sam-network"}]

\* mlast: the monitor operation that ran last, the latency it was called
\* with when it is reportNetworkLatency (the latency it measured, -1 on an
\* error, when it is a probe completion), and the number of probes issued
\* since setPingEndpoints was last called (since construction before that).
MLast(op, latencyMs, issued) ==
  [op |-> op, latencyMs |-> latencyMs, issued |-> issued]

InitMonitor ==
  /\ mon = InitialMonitor
  /\ mlast = MLast("none", 0, 0)

(* ------------------ the monitor, statement by statement ---------------- *)

(***************************************************************************)
(* checkInternetQualityAsync takes no lock: the timer and path handlers    *)
(* call it on the network queue, setActivePingMode calls it with _mutex    *)
(* held.  reportNetworkLatency, reportNetworkFailure and the completion    *)
(* handler write the same members under _mutex.  Here every read and       *)
(* write of a member is a step of its thread, so the steps of a tick on    *)
(* the network queue fall between the steps of a locked section.  The      *)
(* unsynchronised accesses are a data race; the executions below are the   *)
(* sequentially consistent ones among its outcomes.                        *)
(*                                                                         *)
(* Threads: "queue" is the serial network queue, "app" the caller of the   *)
(* public methods, "session" the NSURLSession delegate queue.  A thread    *)
(* record holds the statement it is at (the line number of the source, or  *)
(* "idle") and its locals latencyMs and flag.                              *)
(***************************************************************************)
Threads == {"queue", "app", "session"}

Idle == [pc |-> "idle", latencyMs |-> 0, flag |-> FALSE]

InitRace ==
  /\ thr = [t \in Threads |-> Idle]
  /\ mutex = "free"

(* ------------------------------ history -------------------------------- *)

\* An entry whose bookkeeping differs from that of a fresh entry.
Used(entry) ==
  \/ entry.triggerCount > 0
  \/ entry.isPaused
  \/ entry.nextAllowedTrigger.has
  \/ entry.hasPendingEvent

NoCall == Last("none", "-", Ok, 0, FALSE)

(* ------------------------------ actions -------------------------------- *)

Init ==
  /\ listeners = EmptyMap
  /\ maxListeners = DefaultMaxListeners
  /\ last = NoCall
  /\ dirtyRemoved = {}
  /\ InitMonitor
  /\ sample = None
  /\ answer = "none"
  /\ InitRace

AddListener(id, config, now) ==
  LET r == addListener(id, config, now) IN
  /\ listeners' = r.map
  /\ last' = [Last("addListener", id, r.result, 0, FALSE)
                EXCEPT !.noTarget = ~(config.warm \/ config.cold \/ config.combined),
                       !.reused = r.result.success /\ id \in dirtyRemoved]
  /\ dirtyRemoved' = IF r.result.success THEN dirtyRemoved \ {id} ELSE dirtyRemoved
  /\ UNCHANGED maxListeners
  /\ UNCHANGED outsideRegistry

RemoveListener(id) ==
  LET r == removeListener(id) IN
  /\ listeners' = r.map
  /\ last' = Last("removeListener", id, r.result, 0, FALSE)
  /\ dirtyRemoved' = IF r.result.success /\ Used(listeners[id])
                       THEN dirtyRemoved \cup {id} ELSE dirtyRemoved
  /\ UNCHANGED maxListeners
  /\ UNCHANGED outsideRegistry

RemoveAllListeners ==
  LET r == removeAllListeners IN
  /\ listeners' = r.map
  /\ last' = Last("removeAllListeners", "-", Ok, r.count, FALSE)
  /\ dirtyRemoved' =
       dirtyRemoved \cup {id \in DOMAIN listeners : Used(listeners[id])}
  /\ UNCHANGED maxListeners
  /\ UNCHANGED outsideRegistry

PauseListener(id) ==
  LET r == pauseListener(id) IN
  /\ listeners' = r.map
  /\ last' = Last("pauseListener", id, r.result, 0, FALSE)
  /\ UNCHANGED <<maxListeners, dirtyRemoved>>
  /\ UNCHANGED outsideRegistry

ResumeListener(id) ==
  LET r == resumeListener(id) IN
  /\ listeners' = r.map
  /\ last' = Last("resumeListener", id, r.result, 0, FALSE)
  /\ UNCHANGED <<maxListeners, dirtyRemoved>>
  /\ UNCHANGED outsideRegistry

Configure(maxOpt) ==
  /\ maxListeners' = configure(maxOpt)
  /\ last' = Last("configure", "-", Ok, 0, FALSE)
  /\ UNCHANGED <<listeners, dirtyRemoved>>
  /\ UNCHANGED outsideRegistry

\* A throttle evaluation of a registered entry at time t.
CanFireCallback(id, t, cap) ==
  /\ id \in DOMAIN listeners
  /\ listeners[id].triggerCount < cap
  /\ LET r == canFireCallback(listeners[id], t) IN
       /\ listeners' = [listeners EXCEPT ![id] = r.entry]
       /\ last' = Last("canFireCallback", id, Ok, 0, r.fired)
  /\ UNCHANGED <<maxListeners, dirtyRemoved>>
  /\ UNCHANGED outsideRegistry

\* recordTrigger(id): nothing happens when the id is absent.
RecordTrigger(id, t, cap) ==
  /\ id \in DOMAIN listeners => listeners[id].triggerCount < cap
  /\ listeners' = IF id \in DOMAIN listeners
                    THEN [listeners EXCEPT ![id] = recordTrigger(@, t)]
                    ELSE listeners
  /\ last' = Last("recordTrigger", id, Ok, 0, FALSE)
  /\ UNCHANGED <<maxListeners, dirtyRemoved>>
  /\ UNCHANGED outsideRegistry

\* Every operation, with ids drawn from I, the timestamps handed to
\* canFireCallback from T, the readings of getCurrentTimestamp() from C, and
\* triggerCount capped at cap.
NextOver(I, T, C, cap) ==
  \/ \E id \in I, config \in ConfigInputs, now \in C :
       AddListener(id, config, now)
  \/ \E id \in I : RemoveListener(id)
  \/ RemoveAllListeners
  \/ \E id \in I : PauseListener(id)
  \/ \E id \in I : ResumeListener(id)
  \/ \E maxOpt \in {None} \cup {Some(n) : n \in 0..MaxCap} : Configure(maxOpt)
  \/ \E id \in I, t \in T : CanFireCallback(id, t, cap)
  \/ \E id \in I, t \in C : RecordTrigger(id, t, cap)

\* The registry with two ids, all calls at one instant.
NextRegistry == NextOver(Ids, RegTimes, RegTimes, RegMaxTriggers)

SpecRegistry == Init /\ [][NextRegistry]_vars

\* One listener id with fine-grained time.
NextThrottle == NextOver(ThrottleIds, 0..MaxTime, 0..MaxClock, MaxTriggers)

SpecThrottle == Init /\ [][NextThrottle]_vars

\* A throttle window longer than one instant.
WindowMs == 2

\* The config of the listener the window specification registers.
WindowConfig == Config(TRUE, FALSE, FALSE, TRUE, Some(WindowMs))

\* Time does not run backwards for a listener: the timestamp t is not
\* before the last time the listener was triggered.
Forward(id, t) ==
  (id \in DOMAIN listeners /\ listeners[id].lastTriggered.has) =>
    t >= listeners[id].lastTriggered.value

\* One listener with a window of WindowMs, evaluated, recorded, paused,
\* resumed, removed and added again at timestamps that do not run backwards.
NextWindow ==
  \/ \E id \in ThrottleIds, now \in 0..MaxClock :
       AddListener(id, WindowConfig, now)
  \/ \E id \in ThrottleIds : RemoveListener(id)
  \/ \E id \in ThrottleIds : PauseListener(id)
  \/ \E id \in ThrottleIds : ResumeListener(id)
  \/ \E id \in ThrottleIds, t \in 0..MaxTime :
       Forward(id, t) /\ CanFireCallback(id, t, MaxTriggers)
  \/ \E id \in ThrottleIds, t \in 0..MaxTime :
       Forward(id, t) /\ RecordTrigger(id, t, MaxTriggers)

SpecWindow == Init /\ [][NextWindow]_vars

(* ------------------------- monitor: input sets ------------------------- *)

\* Paths the update handler is called with: no route, wifi, cellular with a
\* 3G radio, and a wired path that still needs a connection set up.
PathInputs ==
  { Path("unsatisfied", FALSE, FALSE, FALSE, FALSE, "UNKNOWN"),
    Path("satisfied", TRUE, FALSE, FALSE, FALSE, "UNKNOWN"),
    Path("satisfied", FALSE, TRUE, FALSE, TRUE, "_3G") }

\* Flags refreshNetworkState reads: unreachable, and reachable over wifi.
FlagInputs ==
  { Flags(FALSE, FALSE, FALSE, "UNKNOWN"),
    Flags(TRUE, FALSE, FALSE, "UNKNOWN") }

\* Latencies reportNetworkLatency is called with.
LatencyInputs == {-1, 50, 500}

\* Outcomes of a probe.
OutcomeInputs == {ProbeError, ProbeSuccess(150)}

\* Lists setPingEndpoints is called with.
EndpointInputs == {<<>>, <<"https://a.example/ping", "https://b.example/ping">>}

(* --------------------------- monitor: actions -------------------------- *)

\* The probes issued since the last setPingEndpoints once the step to m is
\* taken: one more when the step makes a request.
Issued(m) ==
  IF Len(m.probes) > Len(mon.probes) THEN mlast.issued + 1 ELSE mlast.issued

\* The caps a specification places on the monitor: at most maxProbes probes
\* since the cursor was last reset, at most maxInFlight of them outstanding.
Within(m, maxProbes, maxInFlight) ==
  /\ m.pingEndpointIndex <= maxProbes
  /\ Len(m.probes) <= maxInFlight

StartNetworkMonitoring ==
  /\ mon' = startNetworkMonitoring(mon)
  /\ mlast' = MLast("startNetworkMonitoring", 0, Issued(mon'))
  /\ UNCHANGED outsideMonitor

StopNetworkMonitoring ==
  /\ mon' = stopNetworkMonitoring(mon)
  /\ mlast' = MLast("stopNetworkMonitoring", 0, Issued(mon'))
  /\ UNCHANGED outsideMonitor

\* The path monitor's update handler: updateNetworkStateFromPath(path), then
\* checkInternetQualityAsync().
PathUpdate(path, maxProbes, maxInFlight) ==
  /\ mon.networkMonitoringActive
  /\ LET m == checkInternetQualityAsync(updateNetworkStateFromPath(mon, path))
     IN /\ Within(m, maxProbes, maxInFlight)
        /\ mon' = m
  /\ mlast' = MLast("pathUpdate", 0, Issued(mon'))
  /\ UNCHANGED outsideMonitor

\* The quality timer's event handler: the timer fires when it is due, or
\* when the interval it waits for has passed.
TimerTick(maxProbes, maxInFlight) ==
  /\ mon.pingTimer # "null"
  /\ LET m == checkInternetQualityAsync([mon EXCEPT !.pingTimer = "waiting"])
     IN /\ Within(m, maxProbes, maxInFlight)
        /\ mon' = m
  /\ mlast' = MLast("timerTick", 0, Issued(mon'))
  /\ UNCHANGED outsideMonitor

\* refreshNetworkState with SCNetworkReachabilityGetFlags answering flags.
RefreshNetworkState(flags) ==
  /\ mon' = updateNetworkStateFromReachabilityFlags(mon, flags)
  /\ mlast' = MLast("refreshNetworkState", 0, Issued(mon'))
  /\ UNCHANGED outsideMonitor

SetActivePingMode(enabled, maxProbes, maxInFlight) ==
  /\ LET m == setActivePingMode(mon, enabled)
     IN /\ Within(m, maxProbes, maxInFlight)
        /\ mon' = m
  /\ mlast' = MLast("setActivePingMode", 0, Issued(mon'))
  /\ UNCHANGED outsideMonitor

ReportNetworkLatency(latencyMs) ==
  /\ mon' = reportNetworkLatency(mon, latencyMs)
  /\ mlast' = MLast("reportNetworkLatency", latencyMs, Issued(mon'))
  /\ UNCHANGED outsideMonitor

ReportNetworkFailure ==
  /\ mon' = reportNetworkFailure(mon)
  /\ mlast' = MLast("reportNetworkFailure", 0, Issued(mon'))
  /\ UNCHANGED outsideMonitor

SetPingEndpoints(endpoints) ==
  /\ mon' = setPingEndpoints(mon, endpoints)
  /\ mlast' = MLast("setPingEndpoints", 0, 0)
  /\ UNCHANGED outsideMonitor

InitializeWarm ==
  /\ mon' = initializeWarm(mon)
  /\ mlast' = MLast("initializeWarm", 0, Issued(mon'))
  /\ UNCHANGED outsideMonitor

\* The completion handler of an outstanding request runs.
ProbeCompletes(i, outcome) ==
  /\ i \in 1..Len(mon.probes)
  /\ mon' = completeProbe(mon, i, outcome)
  /\ mlast' = MLast("probeCompletes",
                    IF outcome.error THEN -1 ELSE outcome.elapsedMs,
                    Issued(mon'))
  /\ UNCHANGED outsideMonitor

\* Every monitor operation, each running to its end before the next starts.
NextMonitorOver(P, F, L, O, E, maxProbes, maxInFlight) ==
  \/ StartNetworkMonitoring
  \/ StopNetworkMonitoring
  \/ \E path \in P : PathUpdate(path, maxProbes, maxInFlight)
  \/ TimerTick(maxProbes, maxInFlight)
  \/ \E flags \in F : RefreshNetworkState(flags)
  \/ \E enabled \in BOOLEAN : SetActivePingMode(enabled, maxProbes, maxInFlight)
  \/ \E latencyMs \in L : ReportNetworkLatency(latencyMs)
  \/ ReportNetworkFailure
  \/ \E endpoints \in E : SetPingEndpoints(endpoints)
  \/ InitializeWarm
  \/ \E i \in 1..maxInFlight, outcome \in O : ProbeCompletes(i, outcome)

NextMonitor ==
  NextMonitorOver(PathInputs, FlagInputs, LatencyInputs, OutcomeInputs,
                  {<<>>}, MaxProbes, MaxInFlight)

SpecMonitor == Init /\ [][NextMonitor]_vars

\* The endpoint rotation: one wifi path, one reported latency, probes that
\* succeed, the default and a custom endpoint list, and a higher cap on the
\* probes issued.
NextRotation ==
  NextMonitorOver({Path("satisfied", TRUE, FALSE, FALSE, FALSE, "UNKNOWN")},
                  {Flags(TRUE, FALSE, FALSE, "UNKNOWN")}, {50},
                  {ProbeSuccess(150)}, EndpointInputs,
                  RotMaxProbes, MaxInFlight)

SpecRotation == Init /\ [][NextRotation]_vars

\* A device on wifi whose application never reports an outcome, never
\* turns active pinging on and never refreshes by hand: monitoring starts
\* and stops, the path monitor reports the wifi path, the timer ticks and
\* probes complete.
WifiPath == Path("satisfied", TRUE, FALSE, FALSE, FALSE, "UNKNOWN")

NextPassiveWifi ==
  \/ StartNetworkMonitoring
  \/ StopNetworkMonitoring
  \/ PathUpdate(WifiPath, PassiveMaxProbes, PassiveMaxInFlight)
  \/ TimerTick(PassiveMaxProbes, PassiveMaxInFlight)
  \/ \E endpoints \in EndpointInputs : SetPingEndpoints(endpoints)
  \/ InitializeWarm
  \/ \E i \in 1..PassiveMaxInFlight, outcome \in OutcomeInputs :
       ProbeCompletes(i, outcome)

SpecPassiveWifi == Init /\ [][NextPassiveWifi]_vars

\* Offline recovery.  The monitor is disturbed (reportNetworkFailure, a
\* failed probe, the network path lost, monitoring stopped) only while the
\* cursor is below RecFaultsUntil; reportNetworkLatency is never called.
\* The wifi path may be reported, the mode switched, monitoring started and
\* the storage initialised at any time.
Disturbed == mon.pingEndpointIndex < RecFaultsUntil

NoPath == Path("unsatisfied", FALSE, FALSE, FALSE, FALSE, "UNKNOWN")

\* The timer's handler and a probe answered without error.
RecoveryTick == TimerTick(RecMaxProbes, MaxInFlight)

RecoveryProbeSucceeds == \E i \in 1..MaxInFlight : ProbeCompletes(i, ProbeSuccess(150))

NextRecovery ==
  \/ StartNetworkMonitoring
  \/ Disturbed /\ StopNetworkMonitoring
  \/ PathUpdate(WifiPath, RecMaxProbes, MaxInFlight)
  \/ Disturbed /\ PathUpdate(NoPath, RecMaxProbes, MaxInFlight)
  \/ RecoveryTick
  \/ \E enabled \in BOOLEAN : SetActivePingMode(enabled, RecMaxProbes, MaxInFlight)
  \/ Disturbed /\ ReportNetworkFailure
  \/ InitializeWarm
  \/ RecoveryProbeSucceeds
  \/ Disturbed /\ \E i \in 1..MaxInFlight : ProbeCompletes(i, ProbeError)

\* The repeating timer fires as long as it exists, and a request that stays
\* outstanding is answered: weak fairness of the tick and of the successful
\* completion.
SpecRecovery ==
  /\ Init
  /\ [][NextRecovery]_vars
  /\ WF_vars(RecoveryTick)
  /\ WF_vars(RecoveryProbeSucceeds)


\* Race specification: the inputs of the handlers.
RacePathInputs ==
  { Path("unsatisfied", FALSE, FALSE, FALSE, FALSE, "UNKNOWN"),
    Path("satisfied", TRUE, FALSE, FALSE, FALSE, "UNKNOWN") }

RaceLatencyInputs == {-1, 50}

\* Thread t is at statement l.
At(t, l) == thr[t].pc = l

\* Thread t moves to statement l.
Goto(t, l) == thr' = [thr EXCEPT ![t].pc = l]

\* A return that leaves _mutex locked.
Return_KeepsLock(t) ==
  /\ thr' = [thr EXCEPT ![t] = Idle]
  /\ UNCHANGED mutex

\* Thread t returns from its handler; std::lock_guard releases _mutex when
\* the thread holds it.
Return(t) ==
  /\ thr' = [thr EXCEPT ![t] = Idle]
  /\ mutex' = IF mutex = t THEN "free" ELSE mutex

\* One write of thread t to the members, moving on to statement l.
Write(t, from, m, to) ==
  /\ At(t, from)
  /\ mon' = m
  /\ Goto(t, to)
  /\ UNCHANGED <<mutex, mlast, rvars, fvars>>

RaceStartNetworkMonitoring ==
  /\ At("app", "idle") /\ mutex = "free"
  /\ mon' = startNetworkMonitoring(mon)
  /\ UNCHANGED <<thr, mutex, mlast, rvars, fvars>>

\* The timer fires: its handler starts checkInternetQualityAsync.
TimerFires ==
  /\ mon.pingTimer # "null"
  /\ At("queue", "idle")
  /\ mon' = [mon EXCEPT !.pingTimer = "waiting"]
  /\ Goto("queue", "1387")
  /\ UNCHANGED <<mutex, mlast, rvars, fvars>>

\* The path handler: updateNetworkStateFromPath under _mutex, then
\* checkInternetQualityAsync.
PathChanges(path) ==
  /\ mon.networkMonitoringActive
  /\ At("queue", "idle") /\ mutex = "free"
  /\ mon' = updateNetworkStateFromPath(mon, path)
  /\ Goto("queue", "1387")
  /\ UNCHANGED <<mutex, mlast, rvars, fvars>>

\* 1387: if (!_currentNetworkState.isConnected)
CheckConnected(t) ==
  /\ At(t, "1387")
  /\ Goto(t, IF ~mon.currentNetworkState.isConnected THEN "1388" ELSE "1398")
  /\ UNCHANGED <<mon, mutex, mlast, rvars, fvars>>

\* 1388: _lastPingLatencyMs = -1
OfflineWritesLatency(t) ==
  Write(t, "1388", [mon EXCEPT !.lastPingLatencyMs = -1], "1389")

\* 1389: _internetQuality = "offline"
OfflineWritesQuality(t) ==
  Write(t, "1389", [mon EXCEPT !.internetQuality = "offline"], "1390")

\* 1390: _internetReachable = false
OfflineWritesReachable(t) ==
  Write(t, "1390", [mon EXCEPT !.internetReachable = FALSE], "1391")

\* 1391, 1407: updateInternetQualityWarmKeys(); return
TickPublishes(t) ==
  /\ At(t, "1391") \/ At(t, "1407")
  /\ mon' = updateInternetQualityWarmKeys(mon)
  /\ Return(t)
  /\ UNCHANGED <<mlast, rvars, fvars>>

\* 1398: shouldCheckForRecovery = !_internetReachable || _isCheckingOfflineRecovery
ReadRecovery(t) ==
  /\ At(t, "1398")
  /\ thr' = [thr EXCEPT ![t].pc = "1401",
                        ![t].flag = ~mon.internetReachable
                                      \/ mon.isCheckingOfflineRecovery]
  /\ UNCHANGED <<mon, mutex, mlast, rvars, fvars>>

\* 1401: if (!_useActivePing && !shouldCheckForRecovery)
ReadMode(t) ==
  /\ At(t, "1401")
  /\ Goto(t, IF ~mon.useActivePing /\ ~thr[t].flag THEN "1404" ELSE "1417")
  /\ UNCHANGED <<mon, mutex, mlast, rvars, fvars>>

\* 1404: if (_lastPingLatencyMs < 0) ... return
ReadLatency(t) ==
  /\ At(t, "1404")
  /\ IF mon.lastPingLatencyMs < 0
       THEN Goto(t, "1406") /\ UNCHANGED mutex
       ELSE Return(t)
  /\ UNCHANGED <<mon, mlast, rvars, fvars>>

\* 1406: _internetQuality = "unknown"
PassiveWritesQuality(t) ==
  Write(t, "1406", [mon EXCEPT !.internetQuality = "unknown"], "1407")

\* 1417-1472: the endpoint under the cursor is read, the cursor advanced
\* and the request started.
IssuesProbe(t, maxProbes, maxInFlight) ==
  /\ At(t, "1417")
  /\ LET endpoints == getPingEndpoints(mon)
         endpoint == endpoints[(mon.pingEndpointIndex % Len(endpoints)) + 1]
         m == [mon EXCEPT !.pingEndpointIndex = @ + 1,
                          !.probes = Append(@, endpoint)]
     IN /\ Within(m, maxProbes, maxInFlight)
        /\ mon' = m
  /\ Return(t)
  /\ UNCHANGED <<mlast, rvars, fvars>>

\* reportNetworkLatency(latencyMs) is called and takes _mutex; a negative
\* latency returns at once.
CallsReportNetworkLatency(latencyMs) ==
  /\ At("app", "idle") /\ mutex = "free"
  /\ IF latencyMs < 0
       THEN UNCHANGED <<thr, mutex>>
       ELSE /\ thr' = [thr EXCEPT !["app"].pc = "832",
                                  !["app"].latencyMs = latencyMs]
            /\ mutex' = "app"
  /\ UNCHANGED <<mon, mlast, rvars, fvars>>

\* 832: _lastPingLatencyMs = latencyMs
LatencyWritesLatency ==
  Write("app", "832",
        [mon EXCEPT !.lastPingLatencyMs = thr["app"].latencyMs], "833")

\* 833: _internetQuality = latencyToQuality(latencyMs)
LatencyWritesQuality ==
  Write("app", "833",
        [mon EXCEPT !.internetQuality = latencyToQuality(thr["app"].latencyMs)],
        "837")

\* 837: _internetReachable = true
LatencyWritesReachable ==
  Write("app", "837", [mon EXCEPT !.internetReachable = TRUE], "838")

\* 838: _isCheckingOfflineRecovery = false
LatencyWritesRecovery ==
  Write("app", "838", [mon EXCEPT !.isCheckingOfflineRecovery = FALSE], "845")

\* reportNetworkFailure() is called and takes _mutex.
CallsReportNetworkFailure ==
  /\ At("app", "idle") /\ mutex = "free"
  /\ Goto("app", "852")
  /\ mutex' = "app"
  /\ UNCHANGED <<mon, mlast, rvars, fvars>>

\* 852: _internetReachable = false
FailureWritesReachable ==
  Write("app", "852", [mon EXCEPT !.internetReachable = FALSE], "853")

\* 853: _internetQuality = "offline"
FailureWritesQuality ==
  Write("app", "853", [mon EXCEPT !.internetQuality = "offline"], "854")

\* 854: _lastPingLatencyMs = -1
FailureWritesLatency ==
  Write("app", "854", [mon EXCEPT !.lastPingLatencyMs = -1], "855")

\* 855: _isCheckingOfflineRecovery = true
FailureWritesRecovery ==
  Write("app", "855", [mon EXCEPT !.isCheckingOfflineRecovery = TRUE], "862")

\* 845, 862: updateInternetQualityWarmKeys(); return
ReportPublishes ==
  /\ At("app", "845") \/ At("app", "862")
  /\ mon' = updateInternetQualityWarmKeys(mon)
  /\ Return("app")
  /\ UNCHANGED <<mlast, rvars, fvars>>

\* setActivePingMode(enabled): the flag is written under _mutex, and with
\* enabled and monitoring active checkInternetQualityAsync runs on the
\* caller's thread, _mutex still held.  The timer is re-armed on the way.
CallsSetActivePingMode(enabled) ==
  /\ At("app", "idle") /\ mutex = "free"
  /\ mon' = rearmTimer([mon EXCEPT !.useActivePing = enabled])
  /\ IF enabled /\ mon.networkMonitoringActive
       THEN Goto("app", "1387") /\ mutex' = "app"
       ELSE UNCHANGED <<thr, mutex>>
  /\ UNCHANGED <<mlast, rvars, fvars>>

\* The i-th outstanding request ends: its completion handler computes
\* latencyMs and reachable (1431-1457), then waits for _mutex.
CompletionStarts(i, outcome) ==
  /\ At("session", "idle")
  /\ i \in 1..Len(mon.probes)
  /\ mon' = [mon EXCEPT !.probes = Without(@, i)]
  /\ thr' = [thr EXCEPT !["session"] =
               [pc |-> "1461",
                latencyMs |-> IF outcome.error THEN -1 ELSE outcome.elapsedMs,
                flag |-> ~outcome.error]]
  /\ UNCHANGED <<mutex, mlast, rvars, fvars>>

\* 1461: std::lock_guard<std::mutex> lock(self->_mutex)
CompletionLocks ==
  /\ At("session", "1461") /\ mutex = "free"
  /\ Goto("session", "1462")
  /\ mutex' = "session"
  /\ UNCHANGED <<mon, mlast, rvars, fvars>>

\* 1462: _lastPingLatencyMs = latencyMs
CompletionWritesLatency ==
  Write("session", "1462",
        [mon EXCEPT !.lastPingLatencyMs = thr["session"].latencyMs], "1463")

\* 1463: _internetQuality = quality
CompletionWritesQuality ==
  Write("session", "1463",
        [mon EXCEPT !.internetQuality =
           IF thr["session"].flag
             THEN latencyToQuality(thr["session"].latencyMs)
             ELSE "offline"], "1464")

\* 1464: _internetReachable = reachable
CompletionWritesReachable ==
  Write("session", "1464",
        [mon EXCEPT !.internetReachable = thr["session"].flag], "1465")

\* 1465-1466: _isCheckingOfflineRecovery = !reachable; the lock is released
CompletionWritesRecovery ==
  /\ At("session", "1465")
  /\ mon' = [mon EXCEPT !.isCheckingOfflineRecovery = ~thr["session"].flag]
  /\ Goto("session", "1469")
  /\ mutex' = "free"
  /\ UNCHANGED <<mlast, rvars, fvars>>

\* 1469: updateInternetQualityWarmKeys(), outside the lock
CompletionPublishes ==
  /\ At("session", "1469")
  /\ mon' = updateInternetQualityWarmKeys(mon)
  /\ Return("session")
  /\ UNCHANGED <<mlast, rvars, fvars>>

\* The threads that run checkInternetQualityAsync.
Tickers == {"queue", "app"}

NextRace ==
  \/ RaceStartNetworkMonitoring
  \/ TimerFires
  \/ \E path \in RacePathInputs : PathChanges(path)
  \/ \E t \in Tickers : CheckConnected(t)
  \/ \E t \in Tickers : OfflineWritesLatency(t)
  \/ \E t \in Tickers : OfflineWritesQuality(t)
  \/ \E t \in Tickers : OfflineWritesReachable(t)
  \/ \E t \in Tickers : TickPublishes(t)
  \/ \E t \in Tickers : ReadRecovery(t)
  \/ \E t \in Tickers : ReadMode(t)
  \/ \E t \in Tickers : ReadLatency(t)
  \/ \E t \in Tickers : PassiveWritesQuality(t)
  \/ \E t \in Tickers : IssuesProbe(t, RaceMaxProbes, RaceMaxInFlight)
  \/ \E latencyMs \in RaceLatencyInputs : CallsReportNetworkLatency(latencyMs)
  \/ LatencyWritesLatency
  \/ LatencyWritesQuality
  \/ LatencyWritesReachable
  \/ LatencyWritesRecovery
  \/ CallsReportNetworkFailure
  \/ FailureWritesReachable
  \/ FailureWritesQuality
  \/ FailureWritesLatency
  \/ FailureWritesRecovery
  \/ ReportPublishes
  \/ \E enabled \in BOOLEAN : CallsSetActivePingMode(enabled)
  \/ \E i \in 1..RaceMaxInFlight, outcome \in OutcomeInputs :
       CompletionStarts(i, outcome)
  \/ CompletionLocks
  \/ CompletionWritesLatency
  \/ CompletionWritesQuality
  \/ CompletionWritesReachable
  \/ CompletionWritesRecovery
  \/ CompletionPublishes

SpecRace == Init /\ [][NextRace]_vars

\* The lock alone.  Every acquisition of _mutex is a statement of its own:
\* a call or callback first reaches its std::lock_guard (686, 741, 800, 824,
\* 849, 1111, 1461) and takes _mutex in a later step, when it is free.
\* reportNetworkLatency is called with a latency that returns at 829 and
\* with one that is recorded; requests are answered without error.

\* The statements of checkInternetQualityAsync.
TickStatements ==
  {"1387", "1388", "1389", "1390", "1391", "1398", "1401", "1404", "1406",
   "1407", "1417"}

\* A handler that may tick starts only while the caps on the probes leave
\* room for the request of every run of checkInternetQualityAsync under way
\* or about to start, its own included.
Room ==
  LET underWay == Cardinality({t \in Tickers :
                     thr[t].pc \in TickStatements \cup {"800", "1111"}})
  IN /\ mon.pingEndpointIndex + underWay < LockMaxProbes
     /\ Len(mon.probes) + underWay < LockMaxInFlight

\* A public method is called on the application's thread and reaches its
\* std::lock_guard at l.
LockCalls(l, latencyMs, flag) ==
  /\ At("app", "idle")
  /\ thr' = [thr EXCEPT !["app"] = [pc |-> l, latencyMs |-> latencyMs, flag |-> flag]]
  /\ UNCHANGED <<mon, mutex, mlast, rvars, fvars>>

\* The path monitor calls its update handler on the network queue; flag
\* tells whether the new path is the wifi path or no path.
LockPathArrives(wifi) ==
  /\ mon.networkMonitoringActive
  /\ Room
  /\ At("queue", "idle")
  /\ thr' = [thr EXCEPT !["queue"] = [pc |-> "1111", latencyMs |-> 0, flag |-> wifi]]
  /\ UNCHANGED <<mon, mutex, mlast, rvars, fvars>>

\* 686-738: startNetworkMonitoring takes _mutex, runs and returns.
LockedStart ==
  /\ At("app", "686") /\ mutex = "free"
  /\ mon' = startNetworkMonitoring(mon)
  /\ Return("app")
  /\ UNCHANGED <<mlast, rvars, fvars>>

\* 741-765: stopNetworkMonitoring takes _mutex, runs and returns.
LockedStop ==
  /\ At("app", "741") /\ mutex = "free"
  /\ mon' = stopNetworkMonitoring(mon)
  /\ Return("app")
  /\ UNCHANGED <<mlast, rvars, fvars>>

\* 800-819: setActivePingMode takes _mutex, writes the flag, re-arms the
\* timer and calls checkInternetQualityAsync with _mutex held.
LockedSetActivePingMode ==
  /\ At("app", "800") /\ mutex = "free"
  /\ mon' = rearmTimer([mon EXCEPT !.useActivePing = thr["app"].flag])
  /\ IF thr["app"].flag /\ mon.networkMonitoringActive
       THEN Goto("app", "1387") /\ mutex' = "app"
       ELSE Return("app")
  /\ UNCHANGED <<mlast, rvars, fvars>>

\* 824-829: reportNetworkLatency takes _mutex; a negative latency returns.
LockedReportNetworkLatency ==
  /\ At("app", "824") /\ mutex = "free"
  /\ IF thr["app"].latencyMs < 0
       THEN Return("app")
       ELSE Goto("app", "832") /\ mutex' = "app"
  /\ UNCHANGED <<mon, mlast, rvars, fvars>>

\* 849: reportNetworkFailure takes _mutex.
LockedReportNetworkFailure ==
  /\ At("app", "849") /\ mutex = "free"
  /\ Goto("app", "852")
  /\ mutex' = "app"
  /\ UNCHANGED <<mon, mlast, rvars, fvars>>

\* 1111-1163, 708: updateNetworkStateFromPath takes _mutex, runs and
\* returns; the handler goes on to checkInternetQualityAsync without it.
LockedPathUpdate ==
  /\ At("queue", "1111") /\ mutex = "free"
  /\ mon' = updateNetworkStateFromPath(mon, IF thr["queue"].flag THEN WifiPath ELSE NoPath)
  /\ Goto("queue", "1387")
  /\ UNCHANGED <<mutex, mlast, rvars, fvars>>

\* A step of thread t inside a call or callback.
Progress(t) ==
  \/ /\ t = "app"
     /\ \/ LockedStart
        \/ LockedStop
        \/ LockedSetActivePingMode
        \/ LockedReportNetworkLatency
        \/ LockedReportNetworkFailure
        \/ LatencyWritesLatency
        \/ LatencyWritesQuality
        \/ LatencyWritesReachable
        \/ LatencyWritesRecovery
        \/ FailureWritesReachable
        \/ FailureWritesQuality
        \/ FailureWritesLatency
        \/ FailureWritesRecovery
        \/ ReportPublishes
  \/ /\ t = "queue"
     /\ LockedPathUpdate
  \/ /\ t \in Tickers
     /\ \/ CheckConnected(t)
        \/ OfflineWritesLatency(t)
        \/ OfflineWritesQuality(t)
        \/ OfflineWritesReachable(t)
        \/ TickPublishes(t)
        \/ ReadRecovery(t)
        \/ ReadMode(t)
        \/ ReadLatency(t)
        \/ PassiveWritesQuality(t)
        \/ IssuesProbe(t, LockMaxProbes, LockMaxInFlight)
  \/ /\ t = "session"
     /\ \/ CompletionLocks
        \/ CompletionWritesLatency
        \/ CompletionWritesQuality
        \/ CompletionWritesReachable
        \/ CompletionWritesRecovery
        \/ CompletionPublishes

NextLock ==
  \/ LockCalls("686", 0, FALSE)
  \/ LockCalls("741", 0, FALSE)
  \/ \E enabled \in BOOLEAN : Room /\ LockCalls("800", 0, enabled)
  \/ \E latencyMs \in {-1, 150} : LockCalls("824", latencyMs, FALSE)
  \/ LockCalls("849", 0, FALSE)
  \/ \E wifi \in BOOLEAN : LockPathArrives(wifi)
  \/ Room /\ TimerFires
  \/ \E i \in 1..LockMaxInFlight : CompletionStarts(i, ProbeSuccess(150))
  \/ \E t \in Threads : Progress(t)

\* Fair scheduling: a thread inside a call or callback whose next statement
\* can be taken again and again takes it; for a std::lock_guard that is the
\* moment _mutex is free.
SpecLock == Init /\ [][NextLock]_vars /\ \A t \in Threads : SF_vars(Progress(t))

\* Starting and stopping beside the timer.  The application starts and stops
\* monitoring, switches the mode, reports a latency and refreshes the
\* snapshot by hand; the only handler on the network queue is the timer's,
\* so every run of checkInternetQualityAsync on the queue is timer-driven.
NextStop ==
  \/ LockCalls("686", 0, FALSE)
  \/ LockCalls("741", 0, FALSE)
  \/ \E enabled \in BOOLEAN : Room /\ LockCalls("800", 0, enabled)
  \/ LockCalls("824", 150, FALSE)
  \/ \E flags \in FlagInputs : At("app", "idle") /\ RefreshNetworkState(flags)
  \/ Room /\ TimerFires
  \/ \E i \in 1..LockMaxInFlight : CompletionStarts(i, ProbeSuccess(150))
  \/ LockedStart
  \/ LockedStop
  \/ LockedSetActivePingMode
  \/ LockedReportNetworkLatency
  \/ LatencyWritesLatency
  \/ LatencyWritesQuality
  \/ LatencyWritesReachable
  \/ LatencyWritesRecovery
  \/ ReportPublishes
  \/ \E t \in Tickers : CheckConnected(t)
  \/ \E t \in Tickers : OfflineWritesLatency(t)
  \/ \E t \in Tickers : OfflineWritesQuality(t)
  \/ \E t \in Tickers : OfflineWritesReachable(t)
  \/ \E t \in Tickers : TickPublishes(t)
  \/ \E t \in Tickers : ReadRecovery(t)
  \/ \E t \in Tickers : ReadMode(t)
  \/ \E t \in Tickers : ReadLatency(t)
  \/ \E t \in Tickers : PassiveWritesQuality(t)
  \/ \E t \in Tickers : IssuesProbe(t, LockMaxProbes, LockMaxInFlight)
  \/ CompletionLocks
  \/ CompletionWritesLatency
  \/ CompletionWritesQuality
  \/ CompletionWritesReachable
  \/ CompletionWritesRecovery
  \/ CompletionPublishes

SpecStop == Init /\ [][NextStop]_vars

(* ------------------------ the pure functions alone --------------------- *)

\* latencyToQuality(latencyMs) is called; any call may follow any other.
LatencyToQuality(latencyMs) ==
  /\ sample' = Some(latencyMs)
  /\ answer' = latencyToQuality(latencyMs)
  /\ UNCHANGED outsidePure

NextClassify ==
  \E latencyMs \in (-MaxNegLatency)..MaxLatency : LatencyToQuality(latencyMs)

SpecClassify == Init /\ [][NextClassify]_vars

\* The members calculateCombinedQuality reads, with every value their types
\* hold: any snapshot, any label, and a latency that is absent, zero or
\* positive.
CombinedInputs ==
  [currentNetworkState :
     { NetworkState(status, type, isConnected,
                    IF isConnected THEN 1 ELSE 0, gen, FALSE) :
         status \in NetworkStatuses, type \in ConnectionTypes,
         isConnected \in BOOLEAN, gen \in CellularGenerations },
   internetQuality : QualityLabels,
   lastPingLatencyMs : {-1, 0, 150}]

\* calculateCombinedQuality() is called once, on the members m.
CalculateCombinedQuality(m) ==
  /\ ~sample.has
  /\ sample' = Some(m)
  /\ answer' = calculateCombinedQuality(m)
  /\ UNCHANGED outsidePure

NextCombined == \E m \in CombinedInputs : CalculateCombinedQuality(m)

SpecCombined == Init /\ [][NextCombined]_vars

\* The members checkInternetQualityAsync is evaluated on: a snapshot that
\* is connected over wifi or not connected, either mode, any combination of
\* reachable, recovery flag and quality label, a latency that is absent,
\* zero or positive, the cursor at 0 or 1, the storage initialised or not.
TickInputs ==
  { [InitialMonitor EXCEPT
       !.currentNetworkState =
          IF connected
            THEN NetworkState("ONLINE", "WIFI", TRUE, 1, "UNKNOWN", FALSE)
            ELSE NetworkState("OFFLINE", "NONE", FALSE, 0, "UNKNOWN", FALSE),
       !.useActivePing = active,
       !.internetReachable = reachable,
       !.isCheckingOfflineRecovery = recovery,
       !.internetQuality = quality,
       !.lastPingLatencyMs = latencyMs,
       !.pingEndpointIndex = cursor,
       !.warmInstances = IF warm THEN {"sam-network"} ELSE {}] :
      connected \in BOOLEAN, active \in BOOLEAN, reachable \in BOOLEAN,
      recovery \in BOOLEAN, quality \in QualityLabels,
      latencyMs \in {-1, 0, 50}, cursor \in 0..1, warm \in BOOLEAN }

\* checkInternetQualityAsync() runs once, on the members m.
CheckInternetQualityAsync(m) ==
  /\ ~sample.has
  /\ sample' = Some(m)
  /\ answer' = checkInternetQualityAsync(m)
  /\ UNCHANGED outsidePure

NextTick == \E m \in TickInputs : CheckInternetQualityAsync(m)

SpecTick == Init /\ [][NextTick]_vars

(* ======================= properties: the registry ===================== *)

\* The step just taken was the call op(id).
Called(op, id) == last'.op = op /\ last'.id = id

\* C1: after addListener(id, config) succeeds, hasListener(id) is true and
\* getListener(id) is a snapshot with triggerCount 0, isPaused false and no
\* lastTriggered; the entry has no nextAllowedTrigger and no pending event,
\* also when an entry of the same id was used and removed before.
C1_AddedEntryIsFresh ==
  (last.op = "addListener" /\ last.result.success) =>
    /\ hasListener(last.id)
    /\ getListener(last.id).has
    /\ getListener(last.id).value.id = last.id
    /\ getListener(last.id).value.triggerCount = 0
    /\ getListener(last.id).value.isPaused = FALSE
    /\ getListener(last.id).value.lastTriggered.has = FALSE
    /\ listeners[last.id].nextAllowedTrigger.has = FALSE
    /\ listeners[last.id].hasPendingEvent = FALSE

\* An id is added again after its earlier entry was used and removed.
C1_Witness ==
  /\ last.op = "addListener"
  /\ last.result.success
  /\ last.reused
  /\ hasListener(last.id)

\* C2: addListener with an id already in the registry fails with
\* DuplicateId and leaves the registry, hence the existing entry and the
\* size, as it was, whatever config the call carries.
C2_DuplicateAddChangesNothing ==
  [][\A id \in Ids :
       (Called("addListener", id) /\ id \in DOMAIN listeners) =>
         /\ last'.result = ListenerResult(FALSE, "DuplicateId")
         /\ listeners' = listeners
         /\ Cardinality(DOMAIN listeners') = Cardinality(DOMAIN listeners)
         /\ maxListeners' = maxListeners]_rvars

\* A duplicate add was refused on an entry that had been used.
C2_Witness ==
  /\ last.op = "addListener"
  /\ last.result.error = "DuplicateId"
  /\ last.id \in DOMAIN listeners
  /\ listeners[last.id].triggerCount > 0
  /\ listeners[last.id].isPaused

\* C3: addListener with an id not in the registry fails with
\* CapacityExceeded whenever the size is >= the configured maximum, leaving
\* the registry unchanged, and succeeds for a config with a watch target
\* whenever the size is below the maximum.
C3_CapacityDecidesAdd ==
  [][\A id \in Ids :
       (Called("addListener", id) /\ id \notin DOMAIN listeners) =>
         /\ Cardinality(DOMAIN listeners) >= maxListeners =>
              /\ last'.result = ListenerResult(FALSE, "CapacityExceeded")
              /\ listeners' = listeners
         /\ (Cardinality(DOMAIN listeners) < maxListeners /\ ~last'.noTarget) =>
              /\ last'.result.success
              /\ id \in DOMAIN listeners'
              /\ Cardinality(DOMAIN listeners') = Cardinality(DOMAIN listeners) + 1
              /\ \A x \in DOMAIN listeners : listeners'[x] = listeners[x]]_rvars

\* An add was refused by a maximum that configure had set, with the registry
\* exactly full.
C3_Witness ==
  /\ last.op = "addListener"
  /\ last.result.error = "CapacityExceeded"
  /\ maxListeners > 0
  /\ Cardinality(DOMAIN listeners) = maxListeners

\* Every entry of the registry has a watch target.
EveryEntryHasTarget ==
  \A id \in DOMAIN listeners :
    \/ listeners[id].config.warm
    \/ listeners[id].config.cold
    \/ listeners[id].config.combined

\* No step changes the config of an entry that stays in the registry.
ConfigNeverChanges ==
  \A id \in (DOMAIN listeners) \cap (DOMAIN listeners') :
    (Called("addListener", id) /\ last'.result.success)
      \/ listeners'[id].config = listeners[id].config

\* C4 as stated: every entry has a watch target, addListener with a config
\* that sets none of the three fails with InvalidConfig and leaves the
\* registry unchanged, and no other operation alters an entry's config.
C4_Original ==
  /\ []EveryEntryHasTarget
  /\ [][/\ \A id \in Ids :
            (Called("addListener", id) /\ last'.noTarget) =>
              /\ last'.result = ListenerResult(FALSE, "InvalidConfig")
              /\ listeners' = listeners
        /\ ConfigNeverChanges]_rvars

\* C4 (amended): every entry has a watch target; addListener with a config
\* that sets none of the three fails and leaves the registry unchanged, with
\* InvalidConfig when the id is absent and the registry is below its
\* maximum, and otherwise with the error of the earlier check (DuplicateId,
\* CapacityExceeded); no other operation alters an entry's config.
C4_EveryEntryHasTarget ==
  /\ []EveryEntryHasTarget
  /\ [][/\ \A id \in Ids :
            (Called("addListener", id) /\ last'.noTarget) =>
              /\ ~last'.result.success
              /\ listeners' = listeners
              /\ last'.result.error =
                   IF id \in DOMAIN listeners THEN "DuplicateId"
                   ELSE IF Cardinality(DOMAIN listeners) >= maxListeners
                     THEN "CapacityExceeded"
                   ELSE "InvalidConfig"
        /\ ConfigNeverChanges]_rvars

\* An add without a watch target was refused while another entry is registered.
C4_Witness ==
  /\ last.op = "addListener"
  /\ last.result.error = "InvalidConfig"
  /\ last.noTarget
  /\ DOMAIN listeners # {}

\* C5: removeAllListeners() returns the number of entries that were in the
\* registry and leaves it empty: getListenerIds() is empty, hasListener(id)
\* is false for every id, and a second removeAllListeners() returns 0.
C5_RemoveAllReturnsCount ==
  [][last'.op = "removeAllListeners" =>
       /\ last'.count = Cardinality(DOMAIN listeners)
       /\ getListenerIds' = {}
       /\ \A id \in Ids : ~hasListener(id)'
       /\ last.op = "removeAllListeners" => last'.count = 0]_rvars

\* removeAllListeners() removed two entries.
C5_Witness ==
  /\ last.op = "removeAllListeners"
  /\ last.count = 2
  /\ DOMAIN listeners = {}

\* C6: removeListener, pauseListener and resumeListener with an absent id
\* return NotFound and change nothing; with a present id removeListener
\* removes exactly that entry and pause/resume change only that entry's
\* isPaused flag.
C6_NotFoundChangesNothing ==
  [][\A id \in Ids :
       /\ (/\ id \notin DOMAIN listeners
           /\ \/ Called("removeListener", id)
              \/ Called("pauseListener", id)
              \/ Called("resumeListener", id)) =>
            /\ last'.result = ListenerResult(FALSE, "NotFound")
            /\ listeners' = listeners
            /\ maxListeners' = maxListeners
       /\ (id \in DOMAIN listeners /\ Called("removeListener", id)) =>
            /\ last'.result.success
            /\ DOMAIN listeners' = (DOMAIN listeners) \ {id}
            /\ \A x \in DOMAIN listeners' : listeners'[x] = listeners[x]
       /\ (id \in DOMAIN listeners /\ Called("pauseListener", id)) =>
            /\ last'.result.success
            /\ listeners' = [listeners EXCEPT ![id].isPaused = TRUE]
       /\ (id \in DOMAIN listeners /\ Called("resumeListener", id)) =>
            /\ last'.result.success
            /\ listeners' = [listeners EXCEPT ![id].isPaused = FALSE]]_rvars

\* A pause of an absent id was refused while the other id is registered.
C6_Witness ==
  /\ last.op = "pauseListener"
  /\ last.result.error = "NotFound"
  /\ DOMAIN listeners = Ids \ {last.id}

(* ===================== properties: the throttle gate ================== *)

\* The entry carries a throttle window (options and throttleMs both set).
Throttled(entry) == entry.config.options /\ entry.config.throttleMs.has

\* C7: for an unpaused listener with throttle window T the gate is a
\* leading-edge throttle.  An evaluation with no nextAllowedTrigger set (the
\* first one) fires; an evaluation at a time strictly before
\* nextAllowedTrigger does not fire, sets hasPendingEvent and leaves
\* triggerCount, lastTriggered and nextAllowedTrigger alone; an evaluation at
\* a time at or after nextAllowedTrigger fires.  A fire adds one to
\* triggerCount, clears hasPendingEvent and sets nextAllowedTrigger to the
\* time of the evaluation plus T.
C7_LeadingEdgeThrottle ==
  [][\A id \in ThrottleIds, t \in 0..MaxTime :
       (/\ CanFireCallback(id, t, MaxTriggers)
        /\ ~listeners[id].isPaused
        /\ Throttled(listeners[id])) =>
         LET e == listeners[id]
             f == listeners'[id]
             T == e.config.throttleMs.value
             suppressed == e.nextAllowedTrigger.has
                             /\ t < e.nextAllowedTrigger.value
         IN /\ suppressed =>
                 /\ ~last'.fired
                 /\ f.hasPendingEvent
                 /\ f.triggerCount = e.triggerCount
                 /\ f.lastTriggered = e.lastTriggered
                 /\ f.nextAllowedTrigger = e.nextAllowedTrigger
            /\ ~suppressed =>
                 /\ last'.fired
                 /\ f.triggerCount = e.triggerCount + 1
                 /\ f.lastTriggered = Some(t)
                 /\ ~f.hasPendingEvent
                 /\ f.nextAllowedTrigger = Some(t + T)
            /\ f.config = e.config /\ f.isPaused = e.isPaused
            /\ f.createdAt = e.createdAt]_rvars

\* A listener with window 1 fired a second time exactly at the boundary:
\* nextAllowedTrigger was 1 after a fire at 0, and the fire at 1 moved it to 2.
C7_Witness ==
  /\ last.op = "canFireCallback"
  /\ last.fired
  /\ "a" \in DOMAIN listeners
  /\ listeners["a"].config.throttleMs = Some(1)
  /\ listeners["a"].triggerCount = 2
  /\ listeners["a"].lastTriggered = Some(1)
  /\ listeners["a"].nextAllowedTrigger = Some(2)

\* C8: while a listener is paused every evaluation returns false and changes
\* nothing, whatever the throttle state; pauseListener and resumeListener
\* leave the trigger bookkeeping alone; and an evaluation of an unpaused
\* listener fires exactly when no window is configured, none is set, or the
\* time has reached nextAllowedTrigger, so a pause in the past has no effect.
C8_PausedGateIsInert ==
  [][\A id \in ThrottleIds :
       /\ (Called("canFireCallback", id) /\ listeners[id].isPaused) =>
            /\ ~last'.fired
            /\ listeners' = listeners
       /\ (/\ id \in DOMAIN listeners
           /\ Called("pauseListener", id) \/ Called("resumeListener", id)) =>
            /\ listeners'[id].nextAllowedTrigger = listeners[id].nextAllowedTrigger
            /\ listeners'[id].hasPendingEvent = listeners[id].hasPendingEvent
            /\ listeners'[id].triggerCount = listeners[id].triggerCount
            /\ listeners'[id].lastTriggered = listeners[id].lastTriggered
            /\ listeners'[id].isPaused = (last'.op = "pauseListener")
       /\ \A t \in 0..MaxTime :
            (CanFireCallback(id, t, MaxTriggers) /\ ~listeners[id].isPaused) =>
              (last'.fired <=>
                 \/ ~Throttled(listeners[id])
                 \/ ~listeners[id].nextAllowedTrigger.has
                 \/ t >= listeners[id].nextAllowedTrigger.value)]_rvars

\* A paused listener with a window set and an event pending was evaluated.
C8_Witness ==
  /\ last.op = "canFireCallback"
  /\ ~last.fired
  /\ listeners[last.id].isPaused
  /\ listeners[last.id].nextAllowedTrigger.has
  /\ listeners[last.id].hasPendingEvent
  /\ listeners[last.id].triggerCount = 1

\* C9: as long as an entry stays in the registry its triggerCount never
\* decreases, and a step changes it by +1 or not at all.
C9_TriggerCountMonotonic ==
  [][\A id \in (DOMAIN listeners) \cap (DOMAIN listeners') :
       (Called("addListener", id) /\ last'.result.success)
         \/ listeners'[id].triggerCount = listeners[id].triggerCount
         \/ listeners'[id].triggerCount = listeners[id].triggerCount + 1]_rvars

\* recordTrigger raised a count that a throttle evaluation or an earlier
\* recordTrigger had already raised.
C9_Witness ==
  /\ last.op = "recordTrigger"
  /\ last.id \in DOMAIN listeners
  /\ listeners[last.id].triggerCount = 2

\* C10: for every listener whose nextAllowedTrigger is set,
\* nextAllowedTrigger >= the timestamp of the trigger that set it, which is
\* the entry's lastTriggered (canFireCallback and recordTrigger write the two
\* together and nothing else writes either).
C10_WindowEndsAfterTrigger ==
  \A id \in DOMAIN listeners :
    listeners[id].nextAllowedTrigger.has =>
      /\ listeners[id].lastTriggered.has
      /\ listeners[id].nextAllowedTrigger.value >= listeners[id].lastTriggered.value

(* ======================= properties: the monitor ====================== *)

\* The labels from best to worst.
Rank(label) ==
  CASE label = "excellent" -> 0
    [] label = "good" -> 1
    [] label = "fair" -> 2
    [] label = "poor" -> 3

\* C11: latencyToQuality maps a negative latency to unknown, [0,100) to
\* excellent, [100,300) to good, [300,1000) to fair and 1000 or more to
\* poor, the boundaries 100, 300 and 1000 belonging to the worse label; and
\* over non-negative latencies a larger latency never gets a better label.
C11_ClassifierTable ==
  [][ /\ sample'.value < 0 => answer' = "unknown"
      /\ (0 <= sample'.value /\ sample'.value < 100) => answer' = "excellent"
      /\ (100 <= sample'.value /\ sample'.value < 300) => answer' = "good"
      /\ (300 <= sample'.value /\ sample'.value < 1000) => answer' = "fair"
      /\ 1000 <= sample'.value => answer' = "poor"
      /\ (sample.has /\ 0 <= sample.value /\ sample.value <= sample'.value)
           => Rank(answer) <= Rank(answer') ]_vars

\* The boundary latency 100 was classified, and got the worse label.
C11_Witness == sample = Some(100) /\ answer = "good"

\* C12: when reportNetworkFailure has run, whatever the state before it
\* (mode, connectivity, monitoring running or not), reachable is false,
\* quality is offline, lastLatencyMs is -1 and isCheckingOfflineRecovery is
\* true.
C12_FailureForcesOffline ==
  mlast.op = "reportNetworkFailure" =>
    /\ mon.internetReachable = FALSE
    /\ mon.internetQuality = "offline"
    /\ mon.lastPingLatencyMs = -1
    /\ mon.isCheckingOfflineRecovery = TRUE

\* A failure is reported in active mode on a connected network while
\* monitoring runs.
C12_Witness ==
  /\ mlast.op = "reportNetworkFailure"
  /\ mon.useActivePing
  /\ mon.currentNetworkState.isConnected
  /\ mon.networkMonitoringActive
  /\ ~mon.internetReachable

\* C13: when reportNetworkLatency(L) has run with L >= 0, whatever the state
\* before it (also a disconnected snapshot or a recovery probe under way),
\* reachable is true, lastLatencyMs is L, quality is the label of L and
\* isCheckingOfflineRecovery is false.
C13_LatencyForcesReachable ==
  (mlast.op = "reportNetworkLatency" /\ mlast.latencyMs >= 0) =>
    /\ mon.internetReachable = TRUE
    /\ mon.lastPingLatencyMs = mlast.latencyMs
    /\ mon.internetQuality = latencyToQuality(mlast.latencyMs)
    /\ mon.internetQuality \in {"excellent", "good", "fair", "poor"}
    /\ mon.isCheckingOfflineRecovery = FALSE

\* A latency is reported while the snapshot says disconnected and a probe is
\* outstanding.
C13_Witness ==
  /\ mlast.op = "reportNetworkLatency"
  /\ mlast.latencyMs = 500
  /\ ~mon.currentNetworkState.isConnected
  /\ Len(mon.probes) > 0
  /\ mon.internetReachable
  /\ mon.internetQuality = "fair"

\* C14: reportNetworkLatency with a negative latency changes nothing: not
\* lastLatencyMs, quality, reachable, isCheckingOfflineRecovery, the
\* endpoint cursor, nor any published key.
C14_NegativeLatencyIgnored ==
  [][ (mlast'.op = "reportNetworkLatency" /\ mlast'.latencyMs < 0)
        => mon' = mon ]_vars

\* A negative latency is reported while the monitor is reachable, the
\* storage is initialised and the cursor has advanced.
C14_Witness ==
  /\ mlast.op = "reportNetworkLatency"
  /\ mlast.latencyMs < 0
  /\ mon.internetReachable
  /\ "sam-network" \in mon.warmInstances
  /\ mon.pingEndpointIndex > 0

\* C16: isCheckingOfflineRecovery is true exactly when the monitor is
\* unreachable (an unreachable monitor probes on its next connected tick, so
\* a recovery probe is then outstanding or due): never true while reachable,
\* and true in the initial state, after a tick that forces offline on a
\* disconnected network, and after a failed probe.
C16_RecoveryFlagExact ==
  mon.isCheckingOfflineRecovery <=> ~mon.internetReachable

\* The step just taken ran checkInternetQualityAsync: the timer fired, the
\* path changed, or active pinging was turned on while monitoring.
Ticked ==
  \/ mlast'.op = "timerTick"
  \/ mlast'.op = "pathUpdate"
  \/ /\ mlast'.op = "setActivePingMode"
     /\ mon'.useActivePing
     /\ mon'.networkMonitoringActive

C18_PassiveWifiStaysUnknown ==
  "NETWORK_QUALITY" \in DOMAIN mon.store =>
    /\ mon.store["NETWORK_QUALITY"] = "strong"
    /\ mon.internetQuality = "unknown"
    /\ "INTERNET_QUALITY" \in DOMAIN mon.store =>
         mon.store["INTERNET_QUALITY"] = "unknown"

\* C19: the k-th probe (from 0) issued since setPingEndpoints was last
\* called goes to element k mod n of the active list, the custom list when
\* it is non-empty and the four defaults otherwise; so the first probe after
\* setting or clearing the list goes to the first element.
C19_RoundRobin ==
  [][ Len(mon'.probes) > Len(mon.probes) =>
        LET active == IF mon.customPingEndpoints # <<>>
                        THEN mon.customPingEndpoints
                        ELSE DefaultPingEndpoints
        IN /\ Len(mon'.probes) = Len(mon.probes) + 1
           /\ mon'.probes[Len(mon'.probes)]
                = active[(mlast.issued % Len(active)) + 1] ]_vars

\* The fifth probe on the defaults wraps around to the first endpoint.
C19_Witness ==
  /\ mlast.issued = 5
  /\ mon.customPingEndpoints = <<>>
  /\ mon.probes = <<DefaultPingEndpoints[1]>>
  /\ mlast.op \in {"timerTick", "pathUpdate", "setActivePingMode"}

\* The probe-quality tier shared by both readings of C20.
FromProbe(quality) ==
  CASE quality = "excellent" \/ quality = "good" -> "strong"
    [] quality = "fair" -> "medium"
    [] quality = "poor" -> "weak"

\* C20 as claimed: the combined quality is offline if the status is offline
\* or the type none or the probe quality offline; else, with no probe data,
\* strong on wifi and ethernet and on cellular 4g/5g, medium on cellular 3g
\* and weak on anything else, bluetooth, vpn and unknown types included;
\* else strong for excellent/good, medium for fair, weak for poor.
C20_Original ==
  sample.has =>
    LET m == sample.value
        net == m.currentNetworkState
    IN answer =
         IF net.status = "OFFLINE" \/ net.type = "NONE"
            \/ m.internetQuality = "offline" THEN "offline"
         ELSE IF m.internetQuality = "unknown" \/ m.lastPingLatencyMs < 0 THEN
           IF net.type \in {"WIFI", "ETHERNET"} THEN "strong"
           ELSE IF net.type = "CELLULAR"
                   /\ net.cellularGeneration \in {"_4G", "_5G"} THEN "strong"
           ELSE IF net.type = "CELLULAR" /\ net.cellularGeneration = "_3G"
             THEN "medium"
           ELSE "weak"
         ELSE FromProbe(m.internetQuality)

\* C20, amended: as claimed, except that with no probe data a type that is
\* neither wifi, ethernet nor cellular (bluetooth, vpn, unknown) gives
\* unknown, weak being the estimate of cellular 2g or unknown generation
\* only; isConnected is not consulted.
C20_CombinedQualityTable ==
  sample.has =>
    LET m == sample.value
        net == m.currentNetworkState
    IN answer =
         IF net.status = "OFFLINE" \/ net.type = "NONE"
            \/ m.internetQuality = "offline" THEN "offline"
         ELSE IF m.internetQuality = "unknown" \/ m.lastPingLatencyMs < 0 THEN
           IF net.type \in {"WIFI", "ETHERNET"} THEN "strong"
           ELSE IF net.type = "CELLULAR" THEN
             IF net.cellularGeneration \in {"_4G", "_5G"} THEN "strong"
             ELSE IF net.cellularGeneration = "_3G" THEN "medium"
             ELSE "weak"
           ELSE "unknown"
         ELSE FromProbe(m.internetQuality)

\* The function was evaluated on an online, connected snapshot of unknown
\* type (a satisfied path over none of wifi, cellular, wired) whose probe
\* quality has no latency behind it.
C20_Witness ==
  /\ sample.has
  /\ sample.value.currentNetworkState.type = "UNKNOWN"
  /\ sample.value.currentNetworkState.status = "ONLINE"
  /\ sample.value.currentNetworkState.isConnected
  /\ sample.value.internetQuality = "good"
  /\ sample.value.lastPingLatencyMs = -1
  /\ answer = "unknown"

\* No handler is under way on any thread.
Quiescent == \A t \in Threads : thr[t].pc = "idle"

\* C15: whenever no handler is in the middle of its writes, quality ==
\* offline implies reachable == false, after any interleaving of reports,
\* ticks, probe completions, setActivePingMode and snapshot updates on
\* their threads.
C15_OfflineImpliesUnreachable ==
  Quiescent => (mon.internetQuality = "offline" => mon.internetReachable = FALSE)

(* ================ properties: mode switch and cancellation ============= *)

\* C21: setActivePingMode(true) while monitoring runs performs exactly one
\* evaluation tick within the call: on a connected snapshot one probe is
\* issued (cursor and outstanding requests one more, the four quality
\* fields as they were), on a disconnected snapshot the offline
\* short-circuit runs and no probe is issued.  setActivePingMode(false), and
\* setActivePingMode(true) while monitoring is not running, trigger no tick:
\* they change the mode flag and nothing else, the schedule of the timer
\* included.
C21_ModeSwitchTicksOnce ==
  [][ mlast'.op = "setActivePingMode" =>
        IF mon'.useActivePing /\ mon.networkMonitoringActive
          THEN IF mon.currentNetworkState.isConnected
                 THEN /\ mon'.pingEndpointIndex = mon.pingEndpointIndex + 1
                      /\ Len(mon'.probes) = Len(mon.probes) + 1
                      /\ mon' = [mon EXCEPT
                                   !.useActivePing = TRUE,
                                   !.pingTimer = mon'.pingTimer,
                                   !.pingEndpointIndex = mon'.pingEndpointIndex,
                                   !.probes = mon'.probes]
                 ELSE /\ mon' = [mon EXCEPT
                                   !.useActivePing = TRUE,
                                   !.pingTimer = mon'.pingTimer,
                                   !.lastPingLatencyMs = -1,
                                   !.internetQuality = "offline",
                                   !.internetReachable = FALSE,
                                   !.store = mon'.store]
          ELSE mon' = [mon EXCEPT !.useActivePing = mon'.useActivePing] ]_vars

\* The four quality fields of the monitor.
QualityFields(m) ==
  <<m.lastPingLatencyMs, m.internetQuality, m.internetReachable,
    m.isCheckingOfflineRecovery>>

\* C22: the completion of a probe while monitoring is stopped (the probe
\* was issued before stopNetworkMonitoring returned, since every tick needs
\* monitoring to run) is a no-op: none of the four quality fields changes
\* and nothing is published.
C22_CompletionAfterStopIsNoOp ==
  [][ (mlast'.op = "probeCompletes" /\ ~mon.networkMonitoringActive) =>
        /\ QualityFields(mon') = QualityFields(mon)
        /\ mon'.store = mon.store ]_vars

\* C23: a probe completion never leaves reachable true on a snapshot that
\* is not connected: when the snapshot lost its connection between the
\* issue of the probe and its completion, the completion sets neither
\* reachable = true nor a quality other than offline.
C23_CompletionRespectsDisconnect ==
  [][ (mlast'.op = "probeCompletes"
       /\ ~mon.currentNetworkState.isConnected) =>
        /\ ~mon'.internetReachable
        /\ mon'.internetQuality = "offline" ]_vars

(* =================== properties: published network keys ================ *)

\* C24: once the network storage is initialised and NETWORK_QUALITY has
\* been published, between operations the published NETWORK_QUALITY is the
\* combined quality of the current snapshot and probe state, after any
\* sequence of path changes, refreshNetworkState calls, ticks in either
\* mode, probe completions and report calls.
C24_NetworkQualityIsCombined ==
  ("sam-network" \in mon.warmInstances
   /\ "NETWORK_QUALITY" \in DOMAIN mon.store) =>
    mon.store["NETWORK_QUALITY"] = calculateCombinedQuality(mon)

\* C25: the key CELLULAR_GENERATION is present only while the published
\* NETWORK_TYPE is cellular, also after the type changed from cellular to
\* wifi, ethernet or none.
C25_GenerationOnlyWhenCellular ==
  "CELLULAR_GENERATION" \in DOMAIN mon.store =>
    /\ "NETWORK_TYPE" \in DOMAIN mon.store
    /\ mon.store["NETWORK_TYPE"] = "cellular"

\* C26: every replacement of the snapshot, by a path change or by
\* refreshNetworkState, is followed by the publication of NETWORK_STATUS,
\* NETWORK_TYPE, NETWORK_QUALITY and IS_CONNECTED and by a re-evaluation in
\* the quality monitor, so that right after an update to a snapshot that is
\* not connected the monitor has quality offline and reachable false.
C26_UpdatePublishesAndReevaluates ==
  mlast.op \in {"pathUpdate", "refreshNetworkState"} =>
    /\ {"NETWORK_STATUS", "NETWORK_TYPE", "NETWORK_QUALITY", "IS_CONNECTED"}
         \subseteq DOMAIN mon.store
    /\ mon.store["IS_CONNECTED"] = mon.currentNetworkState.isConnected
    /\ ~mon.currentNetworkState.isConnected =>
         /\ mon.internetQuality = "offline"
         /\ ~mon.internetReachable

(* ===================== properties: lock discipline ===================== *)

\* C27: every read and write of the quality fields, the mode flag, the
\* cursor and the snapshot happens with _mutex held by the thread that makes
\* it: a thread inside a handler, at any statement but the one where the
\* completion handler waits for the lock, holds _mutex.
C27_EveryAccessHoldsLock ==
  \A t \in Threads :
    thr[t].pc \notin {"idle", "1461"} => mutex = t

(* ====================== properties: the tick policy ==================== *)

\* The monitor waits for recovery: unreachable, with the recovery flag set.
AwaitsRecovery(m) == ~m.internetReachable /\ m.isCheckingOfflineRecovery

\* C28: a failed probe is retried.  A probe completion with an error leaves
\* the monitor waiting for recovery; it keeps waiting until a probe succeeds
\* or a latency is reported; and while it waits, every tick that finds the
\* snapshot connected with monitoring running issues a probe (one more
\* outstanding request, the cursor one further), in active and in passive
\* mode alike.
C28_FailedProbeIsRetried ==
  [][ /\ (mlast'.op = "probeCompletes" /\ mlast'.latencyMs < 0) =>
           AwaitsRecovery(mon')
      /\ (/\ AwaitsRecovery(mon)
          /\ ~(mlast'.op = "probeCompletes" /\ mlast'.latencyMs >= 0)
          /\ ~(mlast'.op = "reportNetworkLatency" /\ mlast'.latencyMs >= 0)) =>
           AwaitsRecovery(mon')
      /\ (AwaitsRecovery(mon) /\ Ticked
          /\ mon'.currentNetworkState.isConnected) =>
           /\ Len(mon'.probes) = Len(mon.probes) + 1
           /\ mon'.pingEndpointIndex = mon.pingEndpointIndex + 1 ]_vars

\* In passive mode the timer tick issued the second probe after the first
\* one had completed, the monitor still waiting for recovery.
C28_Witness ==
  /\ mlast.op = "timerTick"
  /\ ~mon.useActivePing
  /\ AwaitsRecovery(mon)
  /\ mon.lastPingLatencyMs = -1
  /\ mon.currentNetworkState.isConnected
  /\ mlast.issued = 2
  /\ Len(mon.probes) = 1

\* The policy of the connected tick, between the members m a tick reads
\* and the members n it leaves.
TickPolicy(m, n) ==
  IF m.useActivePing \/ ~m.internetReachable \/ m.isCheckingOfflineRecovery
    THEN /\ Len(n.probes) = Len(m.probes) + 1
         /\ n.pingEndpointIndex = m.pingEndpointIndex + 1
         /\ QualityFields(n) = QualityFields(m)
         /\ n.store = m.store
    ELSE /\ n.probes = m.probes
         /\ n.pingEndpointIndex = m.pingEndpointIndex
         /\ IF m.lastPingLatencyMs >= 0
              THEN /\ QualityFields(n) = QualityFields(m)
                   /\ n.store = m.store
              ELSE /\ n.internetQuality = "unknown"
                   /\ n.lastPingLatencyMs = m.lastPingLatencyMs
                   /\ n.internetReachable = m.internetReachable
                   /\ n.isCheckingOfflineRecovery = m.isCheckingOfflineRecovery
                   /\ "sam-network" \in m.warmInstances =>
                        /\ "INTERNET_QUALITY" \in DOMAIN n.store
                        /\ n.store["INTERNET_QUALITY"] = "unknown"

\* C30: a tick that finds the snapshot connected issues exactly one probe,
\* advancing the cursor by one and leaving the four quality fields alone,
\* exactly when activePingMode is set or the monitor is unreachable or the
\* recovery flag is set.  Otherwise it issues no probe and leaves the cursor
\* alone; with a sample (lastLatencyMs >= 0) it leaves the four fields
\* untouched and publishes nothing, and only without a sample does it set
\* the quality to unknown and publish.
C30_ConnectedTickPolicy ==
  (sample.has /\ sample.value.currentNetworkState.isConnected) =>
    TickPolicy(sample.value, answer)

\* A passive tick on a connected snapshot, the internet reachable and no
\* sample: no probe, the quality reset to unknown and published.
C30_Witness ==
  /\ sample.has
  /\ sample.value.currentNetworkState.isConnected
  /\ ~sample.value.useActivePing
  /\ sample.value.internetReachable
  /\ ~sample.value.isCheckingOfflineRecovery
  /\ sample.value.lastPingLatencyMs = -1
  /\ sample.value.internetQuality = "good"
  /\ "sam-network" \in sample.value.warmInstances
  /\ answer.internetQuality = "unknown"
  /\ answer.store["INTERNET_QUALITY"] = "unknown"
  /\ answer.probes = <<>>

\* The same policy where the handlers run the tick: the timer handler and
\* setActivePingMode(true) tick on the members as they are, the path
\* handler after it has replaced the snapshot and published the network
\* keys.
TickPolicyInHandlers ==
  [][ (Ticked /\ mon'.currentNetworkState.isConnected) =>
        TickPolicy(
          [mon EXCEPT !.useActivePing = mon'.useActivePing,
                      !.store = IF mlast'.op = "pathUpdate"
                                  THEN updateNetworkWarmKeys(mon').store
                                  ELSE mon.store], mon') ]_vars

(* ================== properties: spacing of the fires =================== *)

\* C29: for a listener with a throttle window T > 0 whose timestamps do not
\* run backwards, an evaluation that fires is at least T after the
\* listener's previous trigger.  Fire times therefore grow by at least T
\* from one fire to the next, so any two evaluations that fire are at least
\* T apart, whatever evaluations, suppressed events, pauses and resumes lie
\* between them.
C29_FiresAtLeastWindowApart ==
  [][ \A id \in ThrottleIds :
        (/\ last'.op = "canFireCallback" /\ last'.id = id /\ last'.fired
         /\ id \in DOMAIN listeners
         /\ listeners[id].config.options
         /\ listeners[id].config.throttleMs.has
         /\ listeners[id].config.throttleMs.value > 0
         /\ listeners[id].lastTriggered.has) =>
          listeners'[id].lastTriggered.value
            - listeners[id].lastTriggered.value
              >= listeners[id].config.throttleMs.value ]_vars

\* The listener fired a second time at 2, the end of the window of 2 its
\* first fire at 0 had opened.
C29_Witness ==
  /\ last.op = "canFireCallback"
  /\ last.fired
  /\ "a" \in DOMAIN listeners
  /\ listeners["a"].config.throttleMs = Some(2)
  /\ listeners["a"].triggerCount = 2
  /\ listeners["a"].lastTriggered = Some(2)
  /\ listeners["a"].nextAllowedTrigger = Some(4)

(* ================ properties: write-back of a probe ==================== *)

\* The completion handler has written some of the four quality fields and
\* not yet all of them.
MidWriteBack == thr["session"].pc \in {"1463", "1464", "1465"}

\* C31: the completion handler's four assignments are one atomic step for
\* every other thread: while only some of the four fields carry the probe's
\* result, no other thread reads a quality field (line 1398 reads reachable
\* and the recovery flag, line 1404 the latency) or writes one.
C31_WriteBackIsAtomic ==
  [][ MidWriteBack =>
        \A t \in Tickers :
          thr[t].pc \in {"1388", "1389", "1390", "1398", "1404", "1406"} =>
            thr'[t].pc = thr[t].pc ]_vars

(* ===================== properties: offline recovery ==================== *)

\* C32: offline recovery is live in both modes.  From every state with
\* reachable == false, without any call of reportNetworkLatency, the
\* monitor reaches reachable == true with the recovery flag cleared, unless
\* monitoring stops or the snapshot is not connected at some point on the
\* way.
C32_OfflineRecoveryIsLive ==
  (~mon.internetReachable) ~>
    \/ mon.internetReachable /\ ~mon.isCheckingOfflineRecovery
    \/ ~mon.networkMonitoringActive
    \/ ~mon.currentNetworkState.isConnected

\* In passive mode the second probe, issued after the first had completed,
\* succeeded: the monitor is reachable again with the recovery flag cleared.
C32_Witness ==
  /\ mlast.op = "probeCompletes"
  /\ mlast.latencyMs = 150
  /\ mlast.issued = 2
  /\ ~mon.useActivePing
  /\ mon.networkMonitoringActive
  /\ mon.currentNetworkState.isConnected
  /\ mon.internetReachable
  /\ ~mon.isCheckingOfflineRecovery

(* =================== properties: published internet keys =============== *)

\* C33: once the network storage is initialised, between operations the
\* published INTERNET_REACHABLE equals the monitor's reachable flag and the
\* published INTERNET_STATE is offline exactly when reachable is false
\* (online-weak when reachable and the quality is fair or poor or the
\* combined quality is weak, online otherwise), also when a report call was
\* made before the storage was initialised.  A key that was never set
\* counts as unreachable (a bool read of a missing key gives false).
C33_ReachableKeysFollowMonitor ==
  "sam-network" \in mon.warmInstances =>
    /\ mon.internetReachable =
         IF "INTERNET_REACHABLE" \in DOMAIN mon.store
           THEN mon.store["INTERNET_REACHABLE"] ELSE FALSE
    /\ (IF ~mon.internetReachable THEN "offline"
        ELSE IF mon.internetQuality \in {"fair", "poor"}
                \/ calculateCombinedQuality(mon) = "weak" THEN "online-weak"
        ELSE "online") =
         IF "INTERNET_STATE" \in DOMAIN mon.store
           THEN mon.store["INTERNET_STATE"] ELSE "offline"

\* The same statement for the states in which the internet keys have been
\* published.
PublishedReachableKeysFollowMonitor ==
  "INTERNET_REACHABLE" \in DOMAIN mon.store => C33_ReachableKeysFollowMonitor

(* ==================== properties: registry capacity ==================== *)

\* C34: in every reachable state the registry holds at most maxListeners
\* entries, after any sequence of addListener, removeListener,
\* removeAllListeners and configure calls, also when configure lowers the
\* maximum while listeners are registered.
C34_SizeWithinMaximum == Size(listeners) <= maxListeners

(* ================= properties: reachable means sampled ================= *)

\* C35: whenever no handler is in the middle of its writes, reachable ==
\* true implies lastLatencyMs >= 0 and a quality among excellent, good,
\* fair and poor, so that the passive branch that resets the quality to
\* unknown for want of a sample (line 1406) is never taken.
C35_ReachableHasSample ==
  /\ (Quiescent /\ mon.internetReachable) =>
       /\ mon.lastPingLatencyMs >= 0
       /\ mon.internetQuality \in {"excellent", "good", "fair", "poor"}
  /\ \A t \in Tickers : thr[t].pc # "1406"

\* The same statement where every handler runs to its end before the next
\* starts.
ReachableHasSampleInHandlers ==
  mon.internetReachable =>
    /\ mon.lastPingLatencyMs >= 0
    /\ mon.internetQuality \in {"excellent", "good", "fair", "poor"}

(* ===================== properties: pending events ====================== *)

\* C36: hasPendingEvent is true exactly when an event has been suppressed by
\* the throttle window since the listener's most recent recorded trigger:
\* a set flag implies a configured window and a set nextAllowedTrigger, an
\* evaluation of a paused listener never sets it, and every recorded
\* trigger, by the throttle gate or by recordTrigger, clears it.
C36_PendingSinceLastTrigger ==
  [][ /\ \A id \in ThrottleIds :
           /\ (last'.op = "canFireCallback" /\ last'.id = id
               /\ id \in DOMAIN listeners /\ listeners[id].isPaused) =>
                listeners'[id].hasPendingEvent = listeners[id].hasPendingEvent
           /\ (last'.op = "canFireCallback" /\ last'.id = id /\ last'.fired) =>
                ~listeners'[id].hasPendingEvent
           /\ (last'.op = "recordTrigger" /\ last'.id = id
               /\ id \in DOMAIN listeners) =>
                ~listeners'[id].hasPendingEvent
      /\ \A id \in DOMAIN listeners' :
           listeners'[id].hasPendingEvent =>
             /\ listeners'[id].config.options
             /\ listeners'[id].config.throttleMs.has
             /\ listeners'[id].nextAllowedTrigger.has ]_vars

\* The parts of the statement that do not involve recordTrigger: a set flag
\* implies a configured window and a set nextAllowedTrigger, an evaluation
\* of a paused listener leaves the flag alone, and a fire clears it.
PendingWithoutRecordTrigger ==
  [][ /\ \A id \in ThrottleIds :
           /\ (last'.op = "canFireCallback" /\ last'.id = id
               /\ id \in DOMAIN listeners /\ listeners[id].isPaused) =>
                listeners'[id].hasPendingEvent = listeners[id].hasPendingEvent
           /\ (last'.op = "canFireCallback" /\ last'.id = id /\ last'.fired) =>
                ~listeners'[id].hasPendingEvent
      /\ \A id \in DOMAIN listeners' :
           listeners'[id].hasPendingEvent =>
             /\ listeners'[id].config.options
             /\ listeners'[id].config.throttleMs.has
             /\ listeners'[id].nextAllowedTrigger.has ]_vars

\* A thread at a std::lock_guard, or outside every call, does not hold
\* _mutex, and _mutex is held by a thread inside a call or free.
LockDiscipline ==
  /\ \A t \in Threads : thr[t].pc \in {"686", "741", "800", "824", "849", "1111", "1461", "idle"}
                          => mutex # t
  /\ mutex \in Threads \cup {"free"}

\* C37: the monitor is deadlock-free.  No thread reaches a std::lock_guard
\* of _mutex while it holds _mutex, on any call path: the tick that
\* setActivePingMode runs with the lock held, the path handler's cascade
\* and the completion handler's write-back included; a thread that has
\* returned no longer holds it; and under fair scheduling every call and
\* every callback that has started returns, so that each thread is outside
\* every call again and again.
C37_DeadlockFree ==
  /\ []LockDiscipline
  /\ \A t \in Threads : []<>(thr[t].pc = "idle")

\* The completion handler waits at its std::lock_guard while
\* setActivePingMode, holding _mutex, is inside checkInternetQualityAsync
\* about to start a request.
C37_Witness ==
  /\ mutex = "app"
  /\ thr["app"].pc = "1417"
  /\ thr["session"].pc = "1461"

\* startNetworkMonitoring, or stopNetworkMonitoring, runs from its
\* std::lock_guard to its return in this step.
StartReturns == thr["app"].pc = "686" /\ thr'["app"].pc = "idle"

StopReturns == thr["app"].pc = "741" /\ thr'["app"].pc = "idle"

\* The timer's handler takes a step of checkInternetQualityAsync.
TimerTickSteps == thr["queue"].pc \in TickStatements /\ thr'["queue"] # thr["queue"]

\* C38: whatever calls of startNetworkMonitoring, stopNetworkMonitoring and
\* setActivePingMode were made, the periodic timer (with the path monitor,
\* created and cancelled beside it) exists exactly when
\* isNetworkMonitoringActive() answers true; start while active and stop
\* while inactive change nothing; and while monitoring is stopped, from the
\* return of stopNetworkMonitoring to the next start, no step of a
\* timer-driven tick changes the four quality fields.
C38_TimerFollowsMonitoring ==
  [][ /\ (mon'.pingTimer # "null") <=> mon'.networkMonitoringActive
      /\ (StartReturns /\ mon.networkMonitoringActive) => mon' = mon
      /\ (StopReturns /\ ~mon.networkMonitoringActive) => mon' = mon
      /\ (TimerTickSteps /\ ~mon.networkMonitoringActive) =>
           QualityFields(mon') = QualityFields(mon) ]_vars

\* What holds of C38 with the handlers interleaved: the timer exists
\* exactly when monitoring is active, a start while active and a stop while
\* inactive change nothing, and no timer handler starts while monitoring is
\* stopped.
TimerExistsWhenMonitoring ==
  [][ /\ (mon'.pingTimer # "null") <=> mon'.networkMonitoringActive
      /\ (StartReturns /\ mon.networkMonitoringActive) => mon' = mon
      /\ (StopReturns /\ ~mon.networkMonitoringActive) => mon' = mon
      /\ (thr["queue"].pc = "idle" /\ thr'["queue"].pc # "idle") =>
           mon.networkMonitoringActive ]_vars

\* With every handler running to its end before the next starts, no timer
\* tick happens while monitoring is stopped.
NoTickWhileStoppedInHandlers ==
  [][ mlast'.op = "timerTick" => mon.networkMonitoringActive ]_vars

====
